---- MODULE Spec2Model ----
(***************************************************************************)
(* A model of arc-reader-rs: the BURIKO ARC extractor / packer.            *)
(*                                                                         *)
(*   Spec     - `unpack`: Arc::open, the loop of run over the entries,     *)
(*              unpack_file with bse::decrypt stepped one iteration at a   *)
(*              time; the DSC and CBG decoders appear by their outcome     *)
(*   PackSpec - `pack`: the loop over the input directory, the archive     *)
(*              writer, and the archive read back through the unpack path  *)
(*   BseSpec  - bse::decrypt alone, one loop iteration per step            *)
(*   ArcSpec  - the accessors of Arc on an opened archive                  *)
(*   VarintSpec - read_variable and read_integer of cbg.rs                 *)
(*   DscSpec  - dsc::decrypt: tree construction, then one symbol per step  *)
(*   HuffSpec - HuffmanTree::new, one pairing per step, and decode_token   *)
(*   CbgSpec  - cbg::decrypt: header, then the stages of decrypt_v1 or     *)
(*              decrypt_v2                                                 *)
(*   AlphaSpec - unpack_alpha of cbg.rs, one control word or one copied    *)
(*              byte per step                                              *)
(*   BitsSpec - BitStream::get_bits beside repeated get_next_bit           *)
(*                                                                         *)
(* Bytes are the integers 0..255 and a buffer is a sequence of bytes, so   *)
(* a Rust index i is the TLA+ index i + 1.  A 32-bit signed word is an     *)
(* integer in -2^31 .. 2^31-1; its arithmetic is done on 16-bit limbs so   *)
(* that it wraps exactly as the machine word does.                         *)
(***************************************************************************)
EXTENDS Integers, Sequences, FiniteSets, TLC

VARIABLES
    overflow_checks,  \* build profile: TRUE = arithmetic overflow panics
    bse_pc,           \* position inside bse::decrypt: idle, call, loop, done
    bse_buf,          \* the buffer `data`, descrambled in place
    bse_input,        \* the buffer as it was handed to bse::decrypt
    bse_sum_check,    \* _sum_check
    bse_xor_check,    \* _xor_check
    bse_hash,         \* _hash
    bse_flags,        \* flags[0..64]
    bse_iter,         \* completed iterations of the main loop
    bse_order,        \* the targets selected so far, in order
    bse_result,       \* "none" | "Ok" | "Err" | "panic"
    bse_pristine,     \* the blob of the first call, before any byte was changed
    bse_first,        \* the result of the first call, once a second one is made
    arc_exists,       \* whether the archive file exists on disk
    arc_bytes,        \* the bytes of the archive file
    arc,              \* the Arc returned by Arc::open
    run_pc,           \* position inside run (unpack): idle, start, loop, bse,
                      \* detect, done
    run_result,       \* "none" | "Ok" | "Err" | "panic"
    idx,              \* the loop variable i of run
    cur,              \* the entry being unpacked: name, raw_data, filesize and
                      \* the payload handed to the detectors
    attempts,         \* the calls of unpack_file made so far, with their result
    outputs,          \* the files written to the output directory, in order
    pack_dir,         \* the entries fs::read_dir yields, in its order
    pack_version,     \* --version
    pack_pos,         \* how many directory entries the pack loop has consumed
    pack_files,       \* the Vec `files` of (file_name, data)
    pack_pc,          \* position inside run (pack): idle, loop, done
    pack_result,      \* "none" | "Ok" | "Io" | "UnsupportedFileType" | "panic"
    acc_pc,           \* a direct call of the Arc accessors: idle, done
    acc_idx,          \* the index the accessors were called with
    acc_out,          \* what get_file_data, get_file_size, get_file_name gave
    varint_bytes,     \* the bytes a varint decoder is run on
    varint_n,         \* the number these bytes encode, <<>> when they encode none
    varint_variable,  \* the result of read_variable on them
    varint_integer,   \* the result of read_integer on them
    varint_table,     \* the result of read_weight_table_v2(.., 1) on them
    dsc_pc,           \* position inside dsc::decrypt: idle, call, tree, decode,
                      \* copy, done
    dsc_crypted,      \* the slice `crypted`
    dsc_crypted_size, \* the argument crypted_size
    dsc_size,         \* `size`, the decoded size read from the header
    dsc_buffer,       \* `buffer`, sorted
    dsc_build,        \* the locals of the tree construction loop
    dsc_nodes,        \* `nodes`, up to the last node touched
    dsc_stream,       \* the locals of the decode loop: src_ptr, src_end, bits,
                      \* nbits
    dsc_copy,         \* the locals of a match copy: ring_ptr, count
    dsc_data,         \* the bytes of `data` written so far (dst_ptr of them)
    dsc_result,       \* "none" | "Ok" | "panic"
    dsc_plan,         \* what the blob was built from
    huff_pc,          \* position inside HuffmanTree::new / decode_token: idle,
                      \* call, loop, built, decode, done
    huff_weights,     \* leaf_nodes_weight
    huff_v2,          \* the argument v2
    huff_nodes,       \* node_list, then the nodes of the tree
    huff_root_weight, \* root_node_weight
    huff_node_index,  \* node_index of decode_token
    huff_result,      \* "none" | "Ok" | "panic"
    cbg_pc,           \* position inside cbg::decrypt: idle, call, v1, rle,
                      \* predict, convert, v2, done
    cbg_crypted,      \* the slice `crypted`
    cbg_hdr,          \* the header fields
    cbg_data0,        \* data0, decrypted
    cbg_data1,        \* data1 of decrypt_v1
    cbg_rle,          \* raw_pixels as the RLE stage leaves it
    cbg_raw,          \* raw_pixels as the predictor leaves it
    cbg_pixels,       \* the pixel buffer returned
    cbg_dims,         \* the width and height returned
    cbg_v2,           \* decrypt_v2: the blocks decoded, the alpha section
    cbg_result,       \* "none" | "Ok" | "InvalidFormat" | "CbgDecryptError" |
                      \* "Io" | "panic" | "hang"
    alpha_pc,         \* position inside unpack_alpha: idle, call, loop, copy,
                      \* done
    alpha_input,      \* the slice `input`
    alpha_offset,     \* the argument offset
    alpha_width,      \* the argument width
    alpha_output,     \* the slice `output`
    alpha_rd,         \* the locals of the loop: the position of the cursor,
                      \* ctl, dst
    alpha_copy,       \* the locals of a copy: v, x, y, count, src, and the
                      \* passes made and the last pass's read and write index
    alpha_result,     \* "none" | "true" | "false" | "Io"
    bits_pc,          \* position of the bit reader exercise: idle, skip, ready,
                      \* done
    bits_data,        \* the bytes under both readers
    bits_skip,        \* the bits taken before the call, to leave a partial byte
    bits_count,       \* the argument count of get_bits
    bits_rd,          \* the reader that get_bits is called on
    bits_got,         \* what get_bits returned
    bits_one,         \* the reader that get_next_bit is called on
    bits_acc          \* what the get_next_bit calls gave so far: the bits taken,
                      \* the value assembled, the result of the last call

bse_vars == <<bse_pc, bse_buf, bse_input, bse_sum_check, bse_xor_check,
              bse_hash, bse_flags, bse_iter, bse_order, bse_result>>
bse_test_vars == <<bse_pristine, bse_first>>

fs_vars == <<arc_exists, arc_bytes>>
unpack_vars == <<arc, run_pc, run_result, idx, cur, attempts, outputs>>
pack_vars == <<pack_dir, pack_version, pack_pos, pack_files, pack_pc, pack_result>>

acc_vars == <<acc_pc, acc_idx, acc_out>>

\* the state of the library routines that are exercised on their own
varint_vars == <<varint_bytes, varint_n, varint_variable, varint_integer,
                 varint_table>>

\* the state of the library routines that are exercised on their own
dsc_vars == <<dsc_pc, dsc_crypted, dsc_crypted_size, dsc_size, dsc_buffer,
              dsc_build, dsc_nodes, dsc_stream, dsc_copy, dsc_data, dsc_result,
              dsc_plan>>

huff_vars == <<huff_pc, huff_weights, huff_v2, huff_nodes, huff_root_weight,
               huff_node_index, huff_result>>

cbg_vars == <<cbg_pc, cbg_crypted, cbg_hdr, cbg_data0, cbg_data1, cbg_rle,
              cbg_raw, cbg_pixels, cbg_dims, cbg_v2, cbg_result>>

alpha_vars == <<alpha_pc, alpha_input, alpha_offset, alpha_width, alpha_output,
                alpha_rd, alpha_copy, alpha_result>>

bits_vars == <<bits_pc, bits_data, bits_skip, bits_count, bits_rd, bits_got,
               bits_one, bits_acc>>

\* the state of the readers of cbg.rs that are exercised on their own
stream_vars == <<alpha_vars, bits_vars>>

\* the state of the image decoder
img_vars == <<huff_vars, cbg_vars, stream_vars>>

\* the state of the library routines that are exercised on their own
lib_vars == <<acc_vars, varint_vars, dsc_vars, img_vars>>

vars == <<overflow_checks, bse_vars, bse_test_vars, fs_vars, unpack_vars,
          pack_vars, lib_vars>>

----------------------------------------------------------------------------
(* Machine arithmetic *)

Byte == 0..255

Pow2(n) == 2^n

\* the low and high 16-bit limbs of a 32-bit word (signed or unsigned)
Lo16(x) == x % 65536
Hi16(x) == (x \div 65536) % 65536

\* the i32 whose limbs are hi and lo
ToI32(hi, lo) ==
    IF hi >= 32768 THEN (hi - 65536) * 65536 + lo ELSE hi * 65536 + lo

RECURSIVE BitXor(_, _, _)
\* bitwise exclusive or of two n-bit naturals (n >= 1), by halves
BitXor(a, b, n) ==
    IF n = 1 THEN (a + b) % 2
    ELSE LET h == n \div 2
             m == Pow2(h)
         IN  BitXor(a % m, b % m, h) + m * BitXor(a \div m, b \div m, n - h)

XorByte(a, b) == BitXor(a, b, 8)

XorI32(x, y) ==
    ToI32(BitXor(Hi16(x), Hi16(y), 16), BitXor(Lo16(x), Lo16(y), 16))

\* x * k in i32, wrapping; k is a small positive constant
WrapMulI32(x, k) ==
    ToI32((Hi16(x) * k + ((Lo16(x) * k) \div 65536)) % 65536,
          (Lo16(x) * k) % 65536)

\* whether the exact product x * k leaves the range of i32
MulOverflowsI32(x, k) ==
    \/ (x \div 65536) * k + ((Lo16(x) * k) \div 65536) < -32768
    \/ (x \div 65536) * k + ((Lo16(x) * k) \div 65536) > 32767

\* x + y in i32, wrapping
WrapAddI32(x, y) ==
    ToI32((Hi16(x) + Hi16(y) + ((Lo16(x) + Lo16(y)) \div 65536)) % 65536,
          (Lo16(x) + Lo16(y)) % 65536)

\* whether the exact sum x + y leaves the range of i32
AddOverflowsI32(x, y) ==
    \/ (x \div 65536) + (y \div 65536) + ((Lo16(x) + Lo16(y)) \div 65536) < -32768
    \/ (x \div 65536) + (y \div 65536) + ((Lo16(x) + Lo16(y)) \div 65536) > 32767

\* ((x >> 16) & 65535) | (x << 16) in i32: the two halves exchanged
SwapHalvesI32(x) == ToI32(Lo16(x), Hi16(x))

----------------------------------------------------------------------------
(* decrypt.rs: the little-endian readers *)

\* read8 / read16 at Rust offset off of buffer d
read8(d, off) == d[off + 1]
read16(d, off) == d[off + 1] + 256 * d[off + 2]
\* read32 followed by `as i32`
read32_i32(d, off) ==
    ToI32(d[off + 3] + 256 * d[off + 4], d[off + 1] + 256 * d[off + 2])

----------------------------------------------------------------------------
(* bse.rs *)

BseXorConst == -1496474763

\* ((seed * 257) >> 8) + seed * 97, the first sum of bse_rand
BseRandSum(seed) ==
    WrapAddI32(WrapMulI32(seed, 257) \div 256, WrapMulI32(seed, 97))

\* tmp of bse_rand
BseRandTmp(seed) == XorI32(WrapAddI32(BseRandSum(seed), 23), BseXorConst)

\* whether one of the i32 operations of bse_rand overflows: a panic in a build
\* with overflow checks, a silent wrap in one without
BseRandOverflows(seed) ==
    \/ MulOverflowsI32(seed, 257)
    \/ MulOverflowsI32(seed, 97)
    \/ AddOverflowsI32(WrapMulI32(seed, 257) \div 256, WrapMulI32(seed, 97))
    \/ AddOverflowsI32(BseRandSum(seed), 23)

\* what bse_rand leaves in *seed
BseRandSeed(seed) == SwapHalvesI32(BseRandTmp(seed))

\* what bse_rand returns, given the seed it leaves
BseRandValue(newseed) == newseed % 32768

\* a selection that takes the drawn position as it is, flagged or not
BseProbeNone(flags, i) == i

RECURSIVE BseProbe(_, _)
\* while flags[i] != 0 { i = (i + 1) & 0x3F }
BseProbe(flags, i) ==
    IF flags[i + 1] /= 0 THEN BseProbe(flags, (i + 1) % 64) ELSE i

\* whether the probing loop can stop: some flag is still clear
BseProbeTerminates(flags) == \E j \in 1..64 : flags[j] = 0

\* rotate the byte r left by s
RotL8(r, s) == ((r * Pow2(s)) % 256) + (r \div Pow2(8 - s))
\* rotate the byte r right by s
RotR8(r, s) == (r \div Pow2(s)) + ((r * Pow2(8 - s)) % 256)

\* a write that shifts where the code rotates
BseTransformShift(b, r, s, k) ==
    IF k % 2 /= 0 THEN (((b - r) % 256) * Pow2(s)) % 256
    ELSE ((b - r) % 256) \div Pow2(s)

\* the write of one iteration: subtract the keystream byte, then rotate
BseTransform(b, r, s, k) ==
    IF k % 2 /= 0 THEN RotL8((b - r) % 256, s) ELSE RotR8((b - r) % 256, s)

\* the draws of one iteration, given the seeds the four calls of bse_rand leave
BseDrawsOf(flags, h0, h1, h2, h3, h4) ==
    [i    |-> BseProbe(flags, BseRandValue(h1) % 64),
     s    |-> BseRandValue(h2) % 8,
     k    |-> BseRandValue(h3),
     r    |-> BseRandValue(h4),
     hash |-> h4,
     ovf  |-> \/ BseRandOverflows(h0) \/ BseRandOverflows(h1)
              \/ BseRandOverflows(h2) \/ BseRandOverflows(h3)]

BseDraws3(flags, h0, h1, h2, h3) ==
    BseDrawsOf(flags, h0, h1, h2, h3, BseRandSeed(h3))
BseDraws2(flags, h0, h1, h2) == BseDraws3(flags, h0, h1, h2, BseRandSeed(h2))
BseDraws1(flags, h0, h1) == BseDraws2(flags, h0, h1, BseRandSeed(h1))

\* the four draws of one iteration and the probed target
BseDraws(hash, flags) == BseDraws1(flags, hash, BseRandSeed(hash))

\* the effect of one iteration with draws d: the buffer, seed and flags it
\* leaves, or a panic (an overflow under overflow checks, or an index past
\* the end of the buffer)
BseIterWith(data, hash, flags, checked, d) ==
    IF (checked /\ d.ovf) \/ d.i + 16 >= Len(data)
    THEN [panic |-> TRUE, data |-> data, hash |-> hash, flags |-> flags,
          target |-> d.i]
    ELSE [panic  |-> FALSE,
          data   |-> [data EXCEPT
                        ![d.i + 17] = BseTransform(data[d.i + 17], d.r, d.s, d.k)],
          hash   |-> d.hash,
          flags  |-> [flags EXCEPT ![d.i + 1] = 1],
          target |-> d.i]

\* one iteration of `for _ in 0..64`
BseIter(data, hash, flags, checked) ==
    BseIterWith(data, hash, flags, checked, BseDraws(hash, flags))

RECURSIVE SumBytes(_, _, _)
\* wrapping sum of n bytes starting at Rust offset off
SumBytes(d, off, n) ==
    IF n = 0 THEN 0
    ELSE IF n = 1 THEN d[off + 1]
    ELSE (SumBytes(d, off, n \div 2)
            + SumBytes(d, off + (n \div 2), n - (n \div 2))) % 256

RECURSIVE XorBytes(_, _, _)
\* exclusive or of n bytes starting at Rust offset off
XorBytes(d, off, n) ==
    IF n = 0 THEN 0
    ELSE IF n = 1 THEN d[off + 1]
    ELSE XorByte(XorBytes(d, off, n \div 2),
                 XorBytes(d, off + (n \div 2), n - (n \div 2)))

\* a comparison that is content with one of the two checks
BseChecksPassEither(data, sum_check, xor_check) ==
    \/ SumBytes(data, 16, 64) = sum_check
    \/ XorBytes(data, 16, 64) = xor_check

\* the comparison that decides the result of bse::decrypt
BseChecksPass(data, sum_check, xor_check) ==
    /\ SumBytes(data, 16, 64) = sum_check
    /\ XorBytes(data, 16, 64) = xor_check

\* bse::is_valid
bse_is_valid(data, size) ==
    IF size < 80 THEN FALSE
    ELSE SubSeq(data, 1, 7) = <<66, 83, 69, 32, 49, 46, 48>>

----------------------------------------------------------------------------
(* bse::decrypt as a state machine: entry, 64 iterations, validation *)

\* entry of bse::decrypt: the length check and the header reads
BseEnter ==
    /\ bse_pc = "call"
    /\ IF Len(bse_buf) < 16
       THEN /\ bse_pc' = "done"
            /\ bse_result' = "Err"
            /\ UNCHANGED <<bse_sum_check, bse_xor_check, bse_hash, bse_flags,
                           bse_iter, bse_order>>
       ELSE /\ bse_pc' = "loop"
            /\ bse_sum_check' = read8(bse_buf, 10)
            /\ bse_xor_check' = read8(bse_buf, 11)
            /\ bse_hash' = read32_i32(bse_buf, 12)
            /\ bse_flags' = [j \in 1..64 |-> 0]
            /\ bse_iter' = 0
            /\ bse_order' = <<>>
            /\ bse_result' = "none"
    /\ UNCHANGED <<overflow_checks, lib_vars, bse_buf, bse_input, bse_test_vars, fs_vars,
                   unpack_vars, pack_vars>>

\* the state after an iteration that left `it`
BseStepTo(it) ==
    IF it.panic
    THEN /\ bse_pc' = "done"
         /\ bse_result' = "panic"
         /\ UNCHANGED <<bse_buf, bse_hash, bse_flags, bse_iter, bse_order>>
    ELSE /\ bse_buf' = it.data
         /\ bse_hash' = it.hash
         /\ bse_flags' = it.flags
         /\ bse_iter' = bse_iter + 1
         /\ bse_order' = Append(bse_order, it.target)
         /\ UNCHANGED <<bse_pc, bse_result>>

\* one iteration of the descramble loop
BseStep ==
    /\ bse_pc = "loop"
    /\ bse_iter < 64
    /\ BseStepTo(BseIter(bse_buf, bse_hash, bse_flags, overflow_checks))
    /\ UNCHANGED <<overflow_checks, lib_vars, bse_input, bse_sum_check, bse_xor_check,
                   bse_test_vars, fs_vars, unpack_vars, pack_vars>>

\* the checksum loop and the final comparison
BseCheck ==
    /\ bse_pc = "loop"
    /\ bse_iter = 64
    /\ bse_pc' = "done"
    /\ bse_result' = IF BseChecksPass(bse_buf, bse_sum_check, bse_xor_check)
                     THEN "Ok" ELSE "Err"
    /\ UNCHANGED <<overflow_checks, lib_vars, bse_buf, bse_input, bse_sum_check,
                   bse_xor_check, bse_hash, bse_flags, bse_iter, bse_order,
                   bse_test_vars, fs_vars, unpack_vars, pack_vars>>

----------------------------------------------------------------------------
(* Inputs of the BSE specification *)

\* a BSE blob (seed 0x12345678) whose block descrambles to 0, 1, .., 63
\* (sum 0xE0, xor 0), followed by 4 bytes
BseBlobS5 ==
    <<66, 83, 69, 32, 49, 46, 48, 0, 0, 1, 224, 0, 120, 86, 52, 18, 45, 180,
      180, 145, 97, 137, 14, 205, 138, 69, 107, 210, 88, 114, 8, 129, 73, 1,
      177, 183, 130, 73, 114, 69, 241, 220, 6, 15, 40, 100, 90, 112, 131, 92,
      184, 43, 59, 78, 23, 188, 106, 53, 61, 210, 246, 234, 50, 69, 247, 74,
      252, 140, 184, 49, 243, 128, 0, 126, 53, 207, 235, 143, 237, 43, 200,
      201, 202, 203>>

\* a BSE blob (seed 0x0BADF00D) whose block descrambles to the DSC magic
\* followed by zeros; after the block come "OggS" and two bytes
BseBlobDsc ==
    <<66, 83, 69, 32, 49, 46, 48, 0, 0, 1, 162, 72, 13, 240, 173, 11, 195,
      221, 243, 187, 115, 66, 26, 87, 18, 239, 185, 198, 253, 31, 250, 102, 2,
      98, 128, 156, 77, 97, 125, 192, 160, 229, 2, 46, 206, 159, 116, 224, 53,
      75, 12, 16, 51, 107, 45, 75, 134, 120, 32, 154, 159, 118, 16, 164, 191,
      183, 71, 138, 71, 157, 201, 93, 27, 55, 246, 232, 113, 178, 163, 27, 79,
      103, 103, 83, 9, 9>>


\* buffer d with the byte at Rust offset off replaced by v
WithByte(d, off, v) == [d EXCEPT ![off + 1] = v]

\* the blobs bse::decrypt is called on: two that descramble correctly, the
\* first with a wrong sum, a wrong xor, or both, and two that are too short
BseInputs ==
    { BseBlobS5,
      BseBlobDsc,
      WithByte(BseBlobS5, 10, 225),
      WithByte(BseBlobS5, 11, 1),
      WithByte(WithByte(BseBlobS5, 10, 225), 11, 1),
      SubSeq(BseBlobS5, 1, 10),
      SubSeq(BseBlobS5, 1, 40) }

\* how far a changed byte of the block may lie from the original
MaxCorruptDelta == 2

CorruptDeltas == (1..MaxCorruptDelta) \cup {128}

\* no call of bse::decrypt has been made
BseIdle ==
    /\ bse_pc = "idle"
    /\ bse_buf = <<>>
    /\ bse_input = <<>>
    /\ bse_sum_check = 0
    /\ bse_xor_check = 0
    /\ bse_hash = 0
    /\ bse_flags = <<>>
    /\ bse_iter = 0
    /\ bse_order = <<>>
    /\ bse_result = "none"
    /\ bse_pristine = <<>>
    /\ bse_first = "none"

\* what Arc::open returns when it fails
NoArc == [ok |-> FALSE, version |-> 0, count |-> 0, data |-> 0, files |-> <<>>]

\* no entry is being unpacked
NoEntry == [name |-> <<>>, raw_data |-> <<>>, filesize |-> 0, bse |-> "none",
            payload |-> <<>>]

\* no archive on disk and no unpack run
UnpackIdle ==
    /\ arc_exists = FALSE
    /\ arc_bytes = <<>>
    /\ arc = NoArc
    /\ run_pc = "idle"
    /\ run_result = "none"
    /\ idx = 0
    /\ cur = NoEntry
    /\ attempts = <<>>
    /\ outputs = <<>>

\* no pack run
PackIdle ==
    /\ pack_dir = <<>>
    /\ pack_version = 2
    /\ pack_pos = 0
    /\ pack_files = <<>>
    /\ pack_pc = "idle"
    /\ pack_result = "none"

\* no accessor has been called directly
AccIdle ==
    /\ acc_pc = "idle"
    /\ acc_idx = 0
    /\ acc_out = <<>>

\* a varint decoder that has not been run
NotRun == [done |-> FALSE]

\* no varint decoder has been run
VarintIdle ==
    /\ varint_bytes = <<>>
    /\ varint_n = <<>>
    /\ varint_variable = NotRun
    /\ varint_integer = NotRun
    /\ varint_table = NotRun

\* the locals of the tree construction loop of dsc::decrypt at its start
DscBuildStart ==
    [vector0 |-> [k \in 1..1024 |-> 0], nn |-> 0, toggle |-> 512, dec0 |-> 1,
     value_set |-> 1, v13_idx |-> 0, buffer_cur |-> 0]

\* the tree construction is over and its locals are dead
DscBuildOver ==
    [vector0 |-> <<>>, nn |-> 0, toggle |-> 0, dec0 |-> 0, value_set |-> 0,
     v13_idx |-> 0, buffer_cur |-> 0]

\* the locals of the decode loop of dsc::decrypt at its start
DscStreamStart == [src_ptr |-> 0, src_end |-> 0, bits |-> 0, nbits |-> 0]

\* no match copy is under way
DscNoCopy == [ring_ptr |-> 0, count |-> 0, read |-> <<>>]

\* no call of dsc::decrypt has been made
DscIdle ==
    /\ dsc_pc = "idle"
    /\ dsc_crypted = <<>>
    /\ dsc_crypted_size = 0
    /\ dsc_size = 0
    /\ dsc_buffer = <<>>
    /\ dsc_build = DscBuildOver
    /\ dsc_nodes = <<>>
    /\ dsc_stream = DscStreamStart
    /\ dsc_copy = DscNoCopy
    /\ dsc_data = <<>>
    /\ dsc_result = "none"
    /\ dsc_plan = <<>>

\* no tree has been built
HuffIdle ==
    /\ huff_pc = "idle"
    /\ huff_weights = <<>>
    /\ huff_v2 = FALSE
    /\ huff_nodes = <<>>
    /\ huff_root_weight = 0
    /\ huff_node_index = 0
    /\ huff_result = "none"

\* no call of cbg::decrypt has been made
CbgIdle ==
    /\ cbg_pc = "idle"
    /\ cbg_crypted = <<>>
    /\ cbg_hdr = <<>>
    /\ cbg_data0 = <<>>
    /\ cbg_data1 = <<>>
    /\ cbg_rle = <<>>
    /\ cbg_raw = <<>>
    /\ cbg_pixels = <<>>
    /\ cbg_dims = <<>>
    /\ cbg_v2 = <<>>
    /\ cbg_result = "none"

\* the locals of unpack_alpha when its loop is entered, `pos` being the
\* offset in `input` of the byte the cursor is at: lines 829-830
AlphaLoopStart(pos) == [pos |-> pos, ctl |-> 2, dst |-> 3]

\* no copy of unpack_alpha is under way
AlphaNoCopy ==
    [v |-> 0, x |-> 0, y |-> 0, count |-> 0, src |-> 0, k |-> 0, read |-> <<>>]

\* no call of unpack_alpha has been made
AlphaIdle ==
    /\ alpha_pc = "idle"
    /\ alpha_input = <<>>
    /\ alpha_offset = 0
    /\ alpha_width = 0
    /\ alpha_output = <<>>
    /\ alpha_rd = AlphaLoopStart(0)
    /\ alpha_copy = AlphaNoCopy
    /\ alpha_result = "none"

\* a reader on which nothing has been called yet
BitsFresh == [pos |-> 0, cache |-> 0, cache_size |-> 0]

\* get_bits has not been called
BitsNotCalled == [called |-> FALSE, ok |-> TRUE, v |-> 0]

\* no get_next_bit call has been made towards the value
BitsNoneTaken == [taken |-> 0, ok |-> TRUE, v |-> 0]

\* no bit reader is exercised
BitsIdle ==
    /\ bits_pc = "idle"
    /\ bits_data = <<>>
    /\ bits_skip = 0
    /\ bits_count = 0
    /\ bits_rd = BitsFresh
    /\ bits_got = BitsNotCalled
    /\ bits_one = BitsFresh
    /\ bits_acc = BitsNoneTaken

StreamIdle == AlphaIdle /\ BitsIdle

\* no call into cbg.rs has been made
ImgIdle == HuffIdle /\ CbgIdle /\ StreamIdle

\* no library routine is exercised on its own
LibIdle == AccIdle /\ VarintIdle /\ DscIdle /\ ImgIdle

BseInit ==
    /\ overflow_checks \in BOOLEAN
    /\ LibIdle
    /\ UnpackIdle
    /\ PackIdle
    /\ \E blob \in BseInputs :
         /\ bse_buf = blob
         /\ bse_input = blob
         /\ bse_pristine = blob
    /\ bse_pc = "call"
    /\ bse_sum_check = 0
    /\ bse_xor_check = 0
    /\ bse_hash = 0
    /\ bse_flags = <<>>
    /\ bse_iter = 0
    /\ bse_order = <<>>
    /\ bse_result = "none"
    /\ bse_first = "none"

\* a second call, on the blob of a successful first call with one byte of
\* its 64-byte block changed (seed and checksums kept)
BseCorruptAndRetry ==
    /\ bse_pc = "done"
    /\ bse_first = "none"
    /\ bse_result = "Ok"
    /\ \E p \in 0..63, delta \in CorruptDeltas :
         LET changed == WithByte(bse_pristine, 16 + p,
                                 (bse_pristine[16 + p + 1] + delta) % 256)
         IN  /\ bse_buf' = changed
             /\ bse_input' = changed
    /\ bse_first' = bse_result
    /\ bse_pc' = "call"
    /\ bse_result' = "none"
    /\ UNCHANGED <<overflow_checks, lib_vars, bse_sum_check, bse_xor_check, bse_hash,
                   bse_flags, bse_iter, bse_order, bse_pristine, fs_vars,
                   unpack_vars, pack_vars>>

BseNext == BseEnter \/ BseStep \/ BseCheck \/ BseCorruptAndRetry

BseSpec == BseInit /\ [][BseNext]_vars

----------------------------------------------------------------------------
(* Claims about bse::decrypt *)

\* C9: bse::decrypt returns success exactly when, after the 64 iterations,
\* the wrapping sum of the 64 descrambled bytes equals the declared sum_check
\* (byte 10 of the blob) and their exclusive or equals the declared xor_check
\* (byte 11); if either differs it returns BseDecryptError.
C9_BseValidation ==
    (bse_pc = "done" /\ bse_iter = 64 /\ Len(bse_input) >= 16)
      => /\ bse_result \in {"Ok", "Err"}
         /\ bse_result = "Ok" <=>
              /\ SumBytes(bse_buf, 16, 64) = bse_input[11]
              /\ XorBytes(bse_buf, 16, 64) = bse_input[12]

\* a call that ran its 64 iterations and failed on the xor check alone
C9_Witness ==
    /\ bse_pc = "done"
    /\ bse_iter = 64
    /\ bse_result = "Err"
    /\ SumBytes(bse_buf, 16, 64) = bse_input[11]
    /\ XorBytes(bse_buf, 16, 64) /= bse_input[12]

\* the bytes written by an iteration with draws d are pairwise different
TransformIsBijection(d) ==
    Cardinality({BseTransform(b, d.r, d.s, d.k) : b \in Byte}) = 256

\* C10: after a successful decrypt, the same blob with any single byte of its
\* scrambled block changed makes decrypt fail; and the transform applied to
\* a position (subtract the keystream byte, rotate by the shift) is a
\* bijection on byte values, for the draws of every iteration.
C10_CorruptionDetected ==
    /\ (bse_pc = "done" /\ bse_first = "Ok") => bse_result = "Err"
    /\ (bse_pc = "loop" /\ bse_iter < 64 /\ bse_first = "none")
         => TransformIsBijection(BseDraws(bse_hash, bse_flags))

\* a second call on a corrupted blob ran to its end
C10_Witness ==
    /\ bse_pc = "done"
    /\ bse_first = "Ok"
    /\ bse_iter = 64
    /\ bse_input /= bse_pristine

\* the positions selected so far
BseSelected == { bse_order[a] : a \in DOMAIN bse_order }

\* C26: the descramble loop is a permutation pass.  At every point of the
\* loop the positions selected so far are pairwise different and are the
\* flagged ones, a position that is not selected yet holds its scrambled
\* byte, and the probing loop of the next iteration finds a clear flag;
\* after the 64 iterations every position has been selected once and all 64
\* flags are set.
C26_PermutationPass ==
    (bse_pc \in {"loop", "done"} /\ Len(bse_input) >= 16) =>
        /\ Len(bse_order) = bse_iter
        /\ Cardinality(BseSelected) = bse_iter
        /\ \A j \in 0..63 : bse_flags[j + 1] = (IF j \in BseSelected THEN 1 ELSE 0)
        /\ \A j \in 0..63 :
              (j \notin BseSelected /\ j + 17 <= Len(bse_buf)) =>
                 bse_buf[j + 17] = bse_input[j + 17]
        /\ bse_iter < 64 => BseProbeTerminates(bse_flags)
        /\ bse_iter = 64 =>
              (BseSelected = 0..63 /\ \A j \in 1..64 : bse_flags[j] = 1)

\* a call that went through its 64 iterations, the last of them on the one
\* position that was left
C26_Witness ==
    /\ bse_pc = "done"
    /\ bse_iter = 64
    /\ BseSelected = 0..63
    /\ bse_result = "Ok"

----------------------------------------------------------------------------
(* Byte strings and 32-bit little-endian fields *)

\* n zero bytes
Zeros(n) == [k \in 1..n |-> 0]

\* u32::to_le_bytes
U32LE(n) ==
    <<n % 256, (n \div 256) % 256, (n \div 65536) % 256, (n \div 16777216) % 256>>

\* u32::from_le_bytes of the 4 bytes at Rust offset off (the archives of this
\* model keep every field below 2^31)
ReadU32(d, off) ==
    d[off + 1] + 256 * d[off + 2] + 65536 * d[off + 3] + 16777216 * d[off + 4]

\* the least element of a non-empty set of integers
MinOf(S) == CHOOSE x \in S : \A y \in S : x <= y
\* the greatest element of a non-empty set of integers
MaxOf(S) == CHOOSE x \in S : \A y \in S : y <= x

----------------------------------------------------------------------------
(* arc.rs *)

\* "PackFile    "
V1_MAGIC == <<80, 97, 99, 107, 70, 105, 108, 101, 32, 32, 32, 32>>
\* "BURIKO ARC20"
V2_MAGIC == <<66, 85, 82, 73, 75, 79, 32, 65, 82, 67, 50, 48>>

\* bytes of one directory entry: name, (v2: 80 skipped), offset, size, padding
MetadataSize(version) ==
    IF version = 1 THEN 16 + 4 + 4 + 8 ELSE 16 + 80 + 4 + 4 + 24

\* bytes of an entry that read_exact must find: the skip over the trailing
\* padding is a seek, which does not fail past the end of the file
MetadataNeeded(version) == IF version = 1 THEN 16 + 4 + 4 ELSE 16 + 80 + 4 + 4

\* where the offset field lies inside an entry
MetadataOffsetAt(version) == IF version = 1 THEN 16 ELSE 16 + 80

\* the scrub of the name field on load
ScrubName(name) ==
    [j \in 1..16 |->
        IF name[j] /= 0 /\ (name[j] < 32 \/ name[j] > 127) THEN 95 ELSE name[j]]

\* read_next_file_metadata_v1 / _v2 on an entry that starts at pos
ReadMetadata(bytes, pos, version) ==
    [name   |-> ScrubName(SubSeq(bytes, pos + 1, pos + 16)),
     offset |-> ReadU32(bytes, pos + MetadataOffsetAt(version)),
     size   |-> ReadU32(bytes, pos + MetadataOffsetAt(version) + 4)]

\* the version the magic selects, 0 for none
MagicVersion(magic) ==
    IF magic = V1_MAGIC THEN 1 ELSE IF magic = V2_MAGIC THEN 2 ELSE 0

\* the rest of Arc::open once magic and count have been read
ArcOpenDirectory(bytes, version, count) ==
    IF \E k \in 0..(count - 1) :
          16 + k * MetadataSize(version) + MetadataNeeded(version) > Len(bytes)
    THEN NoArc
    ELSE [ok      |-> TRUE,
          version |-> version,
          count   |-> count,
          data    |-> 16 + count * MetadataSize(version),
          files   |-> [k \in 1..count |->
                         ReadMetadata(bytes, 16 + (k - 1) * MetadataSize(version),
                                      version)]]

\* Arc::open
ArcOpen(exists, bytes) ==
    IF ~exists \/ Len(bytes) < 12 THEN NoArc
    ELSE IF MagicVersion(SubSeq(bytes, 1, 12)) = 0 THEN NoArc
    ELSE IF Len(bytes) < 16 THEN NoArc
    ELSE ArcOpenDirectory(bytes, MagicVersion(SubSeq(bytes, 1, 12)),
                          ReadU32(bytes, 12))

\* the failure of an accessor that returns no data
NoData == [ok |-> FALSE, data |-> <<>>]

\* the bytes of length size at position start, as seek + read_exact get them
ReadAt(bytes, start, size) ==
    IF size > 0 /\ start + size > Len(bytes) THEN NoData
    ELSE [ok |-> TRUE, data |-> SubSeq(bytes, start + 1, start + size)]

\* Arc::get_file_data
get_file_data(a, bytes, i) ==
    IF i >= a.count THEN NoData
    ELSE ReadAt(bytes, a.data + a.files[i + 1].offset, a.files[i + 1].size)

\* Arc::get_file_size
get_file_size(a, i) == IF i >= a.count THEN 0 ELSE a.files[i + 1].size

\* a name field up to its first NUL (after the scrub every byte is ASCII, so
\* from_utf8 succeeds)
NameUntilNul(name) ==
    IF \A j \in 1..Len(name) : name[j] /= 0 THEN name
    ELSE SubSeq(name, 1, MinOf({j \in 1..Len(name) : name[j] = 0}) - 1)

\* Arc::get_file_name
get_file_name(a, i) ==
    IF i >= a.count THEN <<>> ELSE NameUntilNul(a.files[i + 1].name)

----------------------------------------------------------------------------
(* ogg.rs, and the detectors of dsc.rs and cbg.rs *)

\* "OggS"
OggMagic == <<79, 103, 103, 83>>
\* "DSC FORMAT 1.00"
DscMagic == <<68, 83, 67, 32, 70, 79, 82, 77, 65, 84, 32, 49, 46, 48, 48>>
\* "CompressedBG___"
CbgMagic == <<67, 111, 109, 112, 114, 101, 115, 115, 101, 100, 66, 71, 95, 95, 95>>

\* ogg::is_valid
ogg_is_valid(data) ==
    IF Len(data) < 68 THEN FALSE ELSE SubSeq(data, 65, 68) = OggMagic

\* ogg::is_ogg, for data of at least 4 bytes
ogg_is_ogg(data) == SubSeq(data, 1, 4) = OggMagic

\* ogg::is_ogg slices data[0..4] unconditionally: shorter data is a panic
ogg_is_ogg_panics(data) == Len(data) < 4

\* a remove_header that drops the page magic with the prelude
ogg_remove_header_past_magic(data) == SubSeq(data, 69, Len(data))

\* ogg::remove_header (its assertion holds wherever the pipeline calls it)
ogg_remove_header(data) == SubSeq(data, 65, Len(data))

\* ogg::add_header; sample_count is what calculate_sample_count gets from the
\* vorbis decoder
ogg_add_header(data, sample_count) ==
    <<64, 0, 0, 0, 98, 119, 32, 32>> \o U32LE(Len(data)) \o U32LE(sample_count)
      \o <<68, 172, 0, 0, 1, 0, 0, 0>> \o Zeros(24) \o <<3, 0, 0, 0>> \o Zeros(12)
      \o data

\* dsc::is_valid
dsc_is_valid(data, size) ==
    IF size < 32 THEN FALSE ELSE SubSeq(data, 1, 15) = DscMagic

\* cbg::is_valid
cbg_is_valid(data, size) ==
    IF size < 48 THEN FALSE ELSE SubSeq(data, 1, 15) = CbgMagic

\* how a decode and save can end.  dsc::decrypt indexes crypted[n + 32] for
\* every n < 512 and has no error return; cbg::decrypt rejects less than 48
\* bytes, fails its checksum, or slices past the end; the saves can fail on
\* the file system.  What the decoders compute is not part of this model.
DecodeOutcomes(path, payload) ==
    IF path = "dsc"
    THEN (IF Len(payload) < 32 + 512 THEN {"panic"} ELSE {"Ok", "Err", "panic"})
    ELSE IF path = "cbg"
    THEN (IF Len(payload) < 48 THEN {"Err"} ELSE {"Ok", "Err", "panic"})
    ELSE {"Ok", "Err"}

----------------------------------------------------------------------------
(* main.rs: unpack_file *)

\* unpack_file with the OGG detector tested before the others
unpack_paths_ogg_first(payload, filesize) ==
    IF ogg_is_valid(payload) THEN <<"ogg">>
    ELSE IF dsc_is_valid(payload, filesize) THEN <<"dsc">>
    ELSE IF cbg_is_valid(payload, filesize) THEN <<"cbg">>
    ELSE <<"raw">>

\* the branches of the detector chain that run, in order
unpack_paths(payload, filesize) ==
    IF dsc_is_valid(payload, filesize) THEN <<"dsc">>
    ELSE IF cbg_is_valid(payload, filesize) THEN <<"cbg">>
    ELSE IF ogg_is_valid(payload) THEN <<"ogg">>
    ELSE <<"raw">>

\* what the detectors get after a successful bse::decrypt(&mut bse_data):
\* `bse_data = data[16..].to_vec()`, a slice of the blob as it was read
bse_payload(data, descrambled) == SubSeq(data, 17, Len(data))

\* a verbatim write that starts at the 16th byte
raw_write_from_16(payload) == SubSeq(payload, 17, Len(payload))

\* file.write_all(&bse_data) of the last branch
raw_write(payload) == payload

\* the bytes a branch writes when it succeeds
WrittenBytes(path, payload) ==
    IF path = "raw" THEN raw_write(payload)
    ELSE IF path = "ogg" THEN ogg_remove_header(payload)
    ELSE <<>>

\* the record of one call of unpack_file
Attempt(entry, bse, payload, paths, result) ==
    [entry |-> entry, bse |-> bse, payload |-> payload, paths |-> paths,
     result |-> result]

----------------------------------------------------------------------------
(* main.rs: the packer's writer *)

\* a write_filename that keeps the last byte of the field for a terminator
write_filename_15(file_name) ==
    [j \in 1..16 |-> IF j <= 15 /\ j <= Len(file_name) THEN file_name[j] ELSE 0]

\* write_filename: the first min(len, 16) bytes of the name, NUL-padded
write_filename(file_name) ==
    [j \in 1..16 |-> IF j <= Len(file_name) THEN file_name[j] ELSE 0]

RECURSIVE SumSizes(_, _)
\* the sizes of the first n entries of files, added up
SumSizes(files, n) ==
    IF n = 0 THEN 0 ELSE SumSizes(files, n - 1) + Len(files[n].data)

\* an offset that already counts the entry's own size
PackOffsetInclusive(files, i) == SumSizes(files, i + 1)

\* current_offset when the metadata of entry i (from 0) is written
PackOffset(files, i) == SumSizes(files, i)

\* the metadata written for entry i (from 0)
PackEntry(version, files, i) ==
    write_filename(files[i + 1].name)
      \o (IF version = 2 THEN Zeros(80) ELSE <<>>)
      \o U32LE(PackOffset(files, i))
      \o U32LE(Len(files[i + 1].data))
      \o (IF version = 1 THEN Zeros(8) ELSE Zeros(24))

RECURSIVE PackDirectory(_, _, _)
\* the metadata of the first n entries
PackDirectory(version, files, n) ==
    IF n = 0 THEN <<>>
    ELSE PackDirectory(version, files, n - 1) \o PackEntry(version, files, n - 1)

RECURSIVE PackData(_, _)
\* the payloads of the first n entries
PackData(files, n) ==
    IF n = 0 THEN <<>> ELSE PackData(files, n - 1) \o files[n].data

\* everything run (pack) writes to the archive file
WriteArchive(version, files) ==
    (IF version = 1 THEN V1_MAGIC ELSE V2_MAGIC)
      \o U32LE(Len(files))
      \o PackDirectory(version, files, Len(files))
      \o PackData(files, Len(files))

\* path.with_extension("").file_name(): the name without its last extension
\* (a leading dot starts no extension)
FileStem(name) ==
    IF \A j \in 2..Len(name) : name[j] /= 46 THEN name
    ELSE SubSeq(name, 1, MaxOf({j \in 2..Len(name) : name[j] = 46}) - 1)

----------------------------------------------------------------------------
(* main.rs: run, Commands::Unpack *)

\* Arc::open(&arc_file)?
OpenWith(a) ==
    /\ arc' = a
    /\ IF a.ok
       THEN /\ run_pc' = "loop"
            /\ UNCHANGED run_result
       ELSE /\ run_pc' = "done"
            /\ run_result' = "Err"

Open ==
    /\ run_pc = "start"
    /\ OpenWith(ArcOpen(arc_exists, arc_bytes))
    /\ idx' = 0
    /\ UNCHANGED <<overflow_checks, lib_vars, bse_vars, bse_test_vars, fs_vars, cur,
                   attempts, outputs, pack_vars>>

\* the entry that unpack_file starts on
Entry(name, data, size) ==
    [name |-> name, raw_data |-> data, filesize |-> size, bse |-> "none",
     payload |-> data]

\* one pass of `for i in 0..count` up to the call of bse::decrypt or the
\* detector chain: the three accessors, then the head of unpack_file
NextEntryWith(name, d, size) ==
    IF ~d.ok
    THEN /\ run_pc' = "done"
         /\ run_result' = "Err"
         /\ UNCHANGED <<cur, bse_vars>>
    ELSE IF bse_is_valid(d.data, size)
    THEN /\ run_pc' = "bse"
         /\ cur' = Entry(name, d.data, size)
         /\ bse_pc' = "call"
         /\ bse_buf' = d.data
         /\ bse_input' = d.data
         /\ bse_result' = "none"
         /\ UNCHANGED <<run_result, bse_sum_check, bse_xor_check, bse_hash,
                        bse_flags, bse_iter, bse_order>>
    ELSE /\ run_pc' = "detect"
         /\ cur' = Entry(name, d.data, size)
         /\ UNCHANGED <<run_result, bse_vars>>

NextEntry ==
    /\ run_pc = "loop"
    /\ idx < arc.count
    /\ NextEntryWith(get_file_name(arc, idx), get_file_data(arc, arc_bytes, idx),
                     get_file_size(arc, idx))
    /\ UNCHANGED <<overflow_checks, lib_vars, bse_test_vars, fs_vars, arc, idx, attempts,
                   outputs, pack_vars>>

\* the return of bse::decrypt into unpack_file: `?` on an error, the payload
\* assignment on success
AfterBse ==
    /\ run_pc = "bse"
    /\ bse_pc = "done"
    /\ IF bse_result = "Ok"
       THEN /\ cur' = [cur EXCEPT !.bse = "Ok",
                                  !.payload = bse_payload(cur.raw_data, bse_buf)]
            /\ run_pc' = "detect"
            /\ UNCHANGED <<run_result, idx, attempts>>
       ELSE IF bse_result = "Err"
       THEN /\ attempts' = Append(attempts,
                                  Attempt(idx, "Err", cur.payload, <<>>, "Err"))
            /\ idx' = idx + 1
            /\ run_pc' = "loop"
            /\ UNCHANGED <<run_result, cur>>
       ELSE /\ attempts' = Append(attempts,
                                  Attempt(idx, "panic", cur.payload, <<>>, "panic"))
            /\ run_pc' = "done"
            /\ run_result' = "panic"
            /\ UNCHANGED <<idx, cur>>
    /\ UNCHANGED <<overflow_checks, lib_vars, bse_vars, bse_test_vars, fs_vars, arc,
                   outputs, pack_vars>>

\* the file a successful branch leaves in the output directory
Output(entry, name, path, payload) ==
    [entry |-> entry, name |-> name, path |-> path,
     bytes |-> WrittenBytes(path, payload)]

\* the detector chain of unpack_file, the branch it selects, and the return
\* into the loop of run: an Err is logged and the loop goes on
DetectWith(paths) ==
    \E outcome \in DecodeOutcomes(paths[1], cur.payload) :
        /\ attempts' = Append(attempts,
                              Attempt(idx, cur.bse, cur.payload, paths, outcome))
        /\ outputs' = IF outcome = "Ok"
                      THEN Append(outputs,
                                  Output(idx, cur.name, paths[1], cur.payload))
                      ELSE outputs
        /\ IF outcome = "panic"
           THEN /\ run_pc' = "done"
                /\ run_result' = "panic"
                /\ UNCHANGED idx
           ELSE /\ run_pc' = "loop"
                /\ idx' = idx + 1
                /\ UNCHANGED run_result

Detect ==
    /\ run_pc = "detect"
    /\ DetectWith(unpack_paths(cur.payload, cur.filesize))
    /\ UNCHANGED <<overflow_checks, lib_vars, bse_vars, bse_test_vars, fs_vars, arc, cur,
                   pack_vars>>

\* the loop of run is over: Ok(())
Finish ==
    /\ run_pc = "loop"
    /\ idx = arc.count
    /\ run_pc' = "done"
    /\ run_result' = "Ok"
    /\ UNCHANGED <<overflow_checks, lib_vars, bse_vars, bse_test_vars, fs_vars, arc, idx,
                   cur, attempts, outputs, pack_vars>>

----------------------------------------------------------------------------
(* Inputs of the unpack specification *)

\* a blob no detector matches
RawBlob == <<1, 2, 3, 4, 5>>

\* a 64-byte prelude followed by an OGG page
OggPreludeBlob == Zeros(64) \o OggMagic \o <<1, 2>>

\* a DSC header with nothing after it
DscShortBlob == DscMagic \o Zeros(17)

\* a blob as long as a DSC header and code-length table that begins with the
\* DSC magic and carries "OggS" at byte 64
DscOggBlob == DscMagic \o Zeros(49) \o OggMagic \o Zeros(32 + 512 - 68)

\* a blob that begins with the CBG magic and carries "OggS" at byte 64
CbgOggBlob == CbgMagic \o Zeros(49) \o OggMagic \o <<1, 2>>

UnpackBlobs ==
    { RawBlob, OggPreludeBlob, DscShortBlob, DscOggBlob, CbgOggBlob,
      BseBlobDsc, WithByte(BseBlobS5, 10, 225) }

\* how many entries an archive of the unpack specification holds at most
MaxEntries == 2

\* the name of the k-th entry: "f1", "f2", ..
EntryName(k) == <<102, 48 + k>>

\* the blobs as a list of named files
NamedFiles(blobs) ==
    [k \in 1..Len(blobs) |-> [name |-> EntryName(k), data |-> blobs[k]]]

\* a well-formed v1 archive of two raw entries, to derive malformed ones from
BaseArchive == WriteArchive(1, NamedFiles(<<RawBlob, RawBlob>>))

\* well-formed archives of both versions over every list of blobs, and
\* malformed ones: a wrong magic, a file shorter than the magic, a directory
\* cut inside its second entry, a data region one byte short
UnpackArchives ==
    { WriteArchive(v, NamedFiles(blobs)) :
        v \in {1, 2},
        blobs \in UNION { [1..n -> UnpackBlobs] : n \in 0..MaxEntries } }
    \cup { WithByte(BaseArchive, 0, 81),
           SubSeq(BaseArchive, 1, 8),
           SubSeq(BaseArchive, 1, 16 + 32 + 10),
           SubSeq(BaseArchive, 1, Len(BaseArchive) - 1) }

\* the archive file of a run: one of the archives, or no file at all
UnpackFiles ==
    { [exists |-> TRUE, bytes |-> b] : b \in UnpackArchives }
    \cup { [exists |-> FALSE, bytes |-> <<>>] }

Init ==
    /\ overflow_checks \in BOOLEAN
    /\ LibIdle
    /\ BseIdle
    /\ PackIdle
    /\ \E f \in UnpackFiles :
         /\ arc_exists = f.exists
         /\ arc_bytes = f.bytes
    /\ arc = NoArc
    /\ run_pc = "start"
    /\ run_result = "none"
    /\ idx = 0
    /\ cur = NoEntry
    /\ attempts = <<>>
    /\ outputs = <<>>

Next ==
    \/ Open
    \/ NextEntry
    \/ BseEnter
    \/ BseStep
    \/ BseCheck
    \/ AfterBse
    \/ Detect
    \/ Finish

Spec == Init /\ [][Next]_vars

----------------------------------------------------------------------------
(* main.rs: run, Commands::Pack *)

\* the pack loop stops with a result
PackEnd(result) ==
    /\ pack_pc' = "done"
    /\ pack_result' = result
    /\ UNCHANGED <<pack_pos, pack_files>>

\* the pack loop goes on to the next directory entry
PackAdvance(files) ==
    /\ pack_pos' = pack_pos + 1
    /\ pack_files' = files
    /\ UNCHANGED <<pack_pc, pack_result>>

\* the body of `for entry in fs::read_dir(input_dir)?` on entry e
PackStepOn(e) ==
    IF ~e.is_file THEN PackAdvance(pack_files)
    ELSE IF ~e.readable THEN PackEnd("Io")
    ELSE IF ogg_is_ogg_panics(e.data) THEN PackEnd("panic")
    ELSE IF ~ogg_is_ogg(e.data) THEN PackEnd("UnsupportedFileType")
    ELSE IF ~e.decodable THEN PackEnd("panic")
    ELSE PackAdvance(Append(pack_files,
                            [name |-> FileStem(e.name),
                             data |-> ogg_add_header(e.data, e.samples)]))

PackStep ==
    /\ pack_pc = "loop"
    /\ pack_pos < Len(pack_dir)
    /\ PackStepOn(pack_dir[pack_pos + 1])
    /\ UNCHANGED <<overflow_checks, lib_vars, bse_vars, bse_test_vars, fs_vars,
                   unpack_vars, pack_dir, pack_version>>

\* File::create(output_file) moved to the top of the loop body: the archive is
\* written from whatever the list holds when an entry is about to be read
PackWriteEager ==
    /\ pack_pc = "loop"
    /\ pack_pos <= Len(pack_dir)
    /\ arc_exists' = TRUE
    /\ arc_bytes' = WriteArchive(pack_version, pack_files)
    /\ pack_result' = IF pack_pos = Len(pack_dir) THEN "Ok" ELSE "UnsupportedFileType"
    /\ run_pc' = IF pack_pos = Len(pack_dir) THEN "start" ELSE run_pc
    /\ pack_pc' = "done"
    /\ UNCHANGED <<overflow_checks, lib_vars, bse_vars, bse_test_vars, arc, run_result,
                   idx, cur, attempts, outputs, pack_dir, pack_version,
                   pack_pos, pack_files>>

\* File::create(output_file)? and the writes that follow; once the archive is
\* written it is read back by an unpack run
PackWrite ==
    /\ pack_pc = "loop"
    /\ pack_pos = Len(pack_dir)
    /\ \E outcome \in {"written", "cut", "refused"} :
         CASE outcome = "written" ->
                /\ arc_exists' = TRUE
                /\ arc_bytes' = WriteArchive(pack_version, pack_files)
                /\ pack_result' = "Ok"
                /\ run_pc' = "start"
           [] outcome = "cut" ->
                \* a write_all fails: the file holds what was written before it
                /\ arc_exists' = TRUE
                /\ arc_bytes' \in { SubSeq(WriteArchive(pack_version, pack_files), 1, n) :
                                       n \in {0, 12, 16} }
                /\ pack_result' = "Io"
                /\ UNCHANGED run_pc
           [] outcome = "refused" ->
                \* File::create fails
                /\ pack_result' = "Io"
                /\ UNCHANGED <<arc_exists, arc_bytes, run_pc>>
    /\ pack_pc' = "done"
    /\ UNCHANGED <<overflow_checks, lib_vars, bse_vars, bse_test_vars, arc, run_result,
                   idx, cur, attempts, outputs, pack_dir, pack_version,
                   pack_pos, pack_files>>

----------------------------------------------------------------------------
(* Inputs of the pack specification *)

\* a regular, readable file of the input directory
RegularFile(name, data, decodable, samples) ==
    [name |-> name, is_file |-> TRUE, readable |-> TRUE, data |-> data,
     decodable |-> decodable, samples |-> samples]

\* ".ogg"
DotOgg == <<46, 111, 103, 103>>

\* what the input directory may hold: three OGG files (a short name, a stem of
\* 17 bytes, a stem with bytes outside 0x20..0x7F), a 3-byte file, a text
\* file, a file that begins "OggS" and is no vorbis stream, a file that
\* cannot be read, and a subdirectory
PackCandidates ==
    { RegularFile(<<97>> \o DotOgg, OggMagic \o <<1, 2>>, TRUE, 5),
      RegularFile([j \in 1..17 |-> 96 + j] \o DotOgg, OggMagic, TRUE, 0),
      RegularFile(<<98, 195, 169, 127, 7>> \o DotOgg, OggMagic \o <<7>>, TRUE, 300),
      RegularFile(<<115>> \o DotOgg, <<79, 103, 103>>, FALSE, 0),
      RegularFile(<<116, 46, 116, 120, 116>>, <<104, 101, 108, 108, 111>>, FALSE, 0),
      RegularFile(<<120>> \o DotOgg, OggMagic \o <<255>>, FALSE, 0),
      [name |-> <<117>> \o DotOgg, is_file |-> TRUE, readable |-> FALSE,
       data |-> <<>>, decodable |-> FALSE, samples |-> 0],
      [name |-> <<100>>, is_file |-> FALSE, readable |-> FALSE,
       data |-> <<>>, decodable |-> FALSE, samples |-> 0] }

\* how many entries the input directory holds at most
MaxPackFiles == 2

\* the listings of a directory: its entries are pairwise different
PackDirs ==
    { d \in UNION { [1..n -> PackCandidates] : n \in 0..MaxPackFiles } :
        \A i, j \in 1..Len(d) : i /= j => d[i] /= d[j] }

\* what the output path holds before the run: nothing, or an older file that
\* File::create would truncate
PackOutputsBefore ==
    { [exists |-> FALSE, bytes |-> <<>>], [exists |-> TRUE, bytes |-> RawBlob] }

PackInit ==
    /\ overflow_checks \in BOOLEAN
    /\ LibIdle
    /\ BseIdle
    /\ \E f \in PackOutputsBefore :
         /\ arc_exists = f.exists
         /\ arc_bytes = f.bytes
    /\ arc = NoArc
    /\ run_pc = "idle"
    /\ run_result = "none"
    /\ idx = 0
    /\ cur = NoEntry
    /\ attempts = <<>>
    /\ outputs = <<>>
    /\ pack_dir \in PackDirs
    /\ pack_version \in {1, 2}
    /\ pack_pos = 0
    /\ pack_files = <<>>
    /\ pack_pc = "loop"
    /\ pack_result = "none"

PackNext ==
    \/ PackStep
    \/ PackWrite
    \/ Open
    \/ NextEntry
    \/ Detect
    \/ Finish

PackSpec == PackInit /\ [][PackNext]_vars

----------------------------------------------------------------------------
(* Claims about unpack_file and the unpack loop (Spec) *)

\* the size run passes to unpack_file for the entry of attempt a
AttemptSize(a) == get_file_size(arc, a.entry)

\* C1: whenever unpack_file reaches its detectors, exactly one of the four
\* branches runs and it is the first in the order DSC, CBG, OGG whose detector
\* accepts the payload (the verbatim write when none does); a payload the DSC
\* detector accepts goes to the DSC decoder whatever the other detectors say,
\* and the file written comes from that branch.
C1_FirstDetectorWins ==
    /\ \A k \in 1..Len(attempts) :
         attempts[k].paths /= <<>> =>
           /\ Len(attempts[k].paths) = 1
           /\ attempts[k].paths[1] \in {"dsc", "cbg", "ogg", "raw"}
           /\ dsc_is_valid(attempts[k].payload, AttemptSize(attempts[k]))
                <=> attempts[k].paths[1] = "dsc"
           /\ attempts[k].paths[1] = "cbg"
                <=> /\ ~dsc_is_valid(attempts[k].payload, AttemptSize(attempts[k]))
                    /\ cbg_is_valid(attempts[k].payload, AttemptSize(attempts[k]))
           /\ attempts[k].paths[1] = "ogg"
                <=> /\ ~dsc_is_valid(attempts[k].payload, AttemptSize(attempts[k]))
                    /\ ~cbg_is_valid(attempts[k].payload, AttemptSize(attempts[k]))
                    /\ ogg_is_valid(attempts[k].payload)
    /\ \A n \in 1..Len(outputs) :
         \E k \in 1..Len(attempts) :
           /\ attempts[k].entry = outputs[n].entry
           /\ attempts[k].paths = <<outputs[n].path>>

\* a payload that both the DSC and the OGG detector accept was decoded as DSC
C1_Witness ==
    \E k \in 1..Len(attempts) :
        /\ attempts[k].paths = <<"dsc">>
        /\ ogg_is_valid(attempts[k].payload)

\* C2: after a successful bse::decrypt the payload handed to the detectors is
\* the descrambled buffer without its first 16 bytes.
C2_PayloadIsDescrambled ==
    (run_pc = "detect" /\ cur.bse = "Ok")
      => cur.payload = SubSeq(bse_buf, 17, Len(bse_buf))

\* every entry of the opened archive can be read from the file
AllEntriesReadable ==
    \A i \in 0..(arc.count - 1) : get_file_data(arc, arc_bytes, i).ok

\* no entry is as long as a CBG header or a BSE blob: the decoders that can
\* run on such entries have one outcome each
AllEntriesShort ==
    \A i \in 0..(arc.count - 1) : get_file_size(arc, i) < 48

\* C3: when the run over an archive whose entries can all be read is over,
\* unpack_file has been called for every entry 0..count-1 once, in directory
\* order, whatever the calls returned, and run returns success (stated here
\* for the archives whose entries are all shorter than 48 bytes).
C3_EveryEntryAttempted ==
    (run_pc = "done" /\ arc.ok /\ AllEntriesReadable /\ AllEntriesShort)
      => /\ run_result = "Ok"
         /\ Len(attempts) = arc.count
         /\ \A k \in 1..Len(attempts) : attempts[k].entry = k - 1

\* C4: when no detector accepts the payload and unpack_file succeeds, the file
\* written for the entry, under the entry's name, holds exactly the payload.
C4_VerbatimWrite ==
    \A k \in 1..Len(attempts) :
        ( /\ attempts[k].paths /= <<>>
          /\ attempts[k].result = "Ok"
          /\ ~dsc_is_valid(attempts[k].payload, AttemptSize(attempts[k]))
          /\ ~cbg_is_valid(attempts[k].payload, AttemptSize(attempts[k]))
          /\ ~ogg_is_valid(attempts[k].payload) )
        => \E n \in 1..Len(outputs) :
             /\ outputs[n].entry = attempts[k].entry
             /\ outputs[n].name = get_file_name(arc, attempts[k].entry)
             /\ outputs[n].bytes = attempts[k].payload

\* a payload of five bytes was written verbatim as the second file of a run
C4_Witness ==
    /\ Len(outputs) = 2
    /\ outputs[2].path = "raw"
    /\ outputs[2].bytes = RawBlob

----------------------------------------------------------------------------
(* Claims about pack and the read back of its archive (PackSpec) *)

\* the name an entry is expected to carry after the round trip: the first 16
\* bytes of the packer's name, bytes below 0x20 or above 0x7F shown as '_'
ScrubbedPrefix(name) ==
    [j \in 1..(IF Len(name) < 16 THEN Len(name) ELSE 16) |->
        IF name[j] < 32 \/ name[j] > 127 THEN 95 ELSE name[j]]

C6_OffsetsAndData ==
    pack_result = "Ok"
      => /\ Len(arc_bytes)
              = 16 + Len(pack_files) * (IF pack_version = 1 THEN 32 ELSE 128)
                   + SumSizes(pack_files, Len(pack_files))
         /\ arc.ok => arc.data
              = 16 + Len(pack_files) * (IF pack_version = 1 THEN 32 ELSE 128)
         /\ \A i \in 0..(Len(pack_files) - 1) :
              /\ ReadU32(arc_bytes,
                         16 + i * (IF pack_version = 1 THEN 32 ELSE 128)
                            + (IF pack_version = 1 THEN 16 ELSE 96))
                   = SumSizes(pack_files, i)
              /\ ReadU32(arc_bytes,
                         16 + i * (IF pack_version = 1 THEN 32 ELSE 128)
                            + (IF pack_version = 1 THEN 20 ELSE 100))
                   = Len(pack_files[i + 1].data)
              /\ SubSeq(arc_bytes,
                        16 + Len(pack_files) * (IF pack_version = 1 THEN 32 ELSE 128)
                           + SumSizes(pack_files, i) + 1,
                        16 + Len(pack_files) * (IF pack_version = 1 THEN 32 ELSE 128)
                           + SumSizes(pack_files, i + 1))
                   = pack_files[i + 1].data

\* a version 2 archive of two payloads was written and opened
C6_Witness ==
    /\ pack_result = "Ok"
    /\ pack_version = 2
    /\ Len(pack_files) = 2
    /\ arc.ok
    /\ arc.files[2].offset > 0

\* the content is not detected as OGG: it does not begin with "OggS"
NotOggContent(data) == Len(data) < 4 \/ SubSeq(data, 1, 4) /= OggMagic

\* C7: pack does not succeed over a directory with a regular file whose
\* content is not detected as OGG, and when the loop reaches such a file
\* (files shorter than 4 bytes included) pack fails with UnsupportedFileType.
C7_NonOggRejected ==
    /\ pack_result = "Ok"
         => \A k \in 1..Len(pack_dir) :
              pack_dir[k].is_file => ~NotOggContent(pack_dir[k].data)
    /\ ( /\ pack_pc = "done"
         /\ pack_pos < Len(pack_dir)
         /\ pack_dir[pack_pos + 1].is_file
         /\ pack_dir[pack_pos + 1].readable
         /\ NotOggContent(pack_dir[pack_pos + 1].data) )
       => pack_result = "UnsupportedFileType"

\* a regular file of a directory listing
IsRegularFile(e) == e.is_file

\* the OGG the k-th pair of the packer's list was made from: every regular
\* file the loop has passed was accepted
PackedSource(k) ==
    SelectSeq(SubSeq(pack_dir, 1, pack_pos), IsRegularFile)[k].data

\* C8: for every OGG file x the packer accepts, add_header(x) is 64 bytes
\* longer than x and satisfies ogg::is_valid, remove_header(add_header(x)) is
\* x, and the file the unpack of that entry writes holds exactly x.
C8_OggRoundTrip ==
    /\ \A k \in 1..Len(pack_files) :
         /\ Len(pack_files[k].data) = Len(PackedSource(k)) + 64
         /\ ogg_is_valid(pack_files[k].data)
         /\ ogg_remove_header(pack_files[k].data) = PackedSource(k)
    /\ \A n \in 1..Len(outputs) :
         /\ outputs[n].path = "ogg"
         /\ outputs[n].bytes = PackedSource(outputs[n].entry + 1)

\* a packed OGG of six bytes came back out of the archive
C8_Witness ==
    /\ Len(outputs) >= 1
    /\ outputs[1].path = "ogg"
    /\ outputs[1].bytes = OggMagic \o <<1, 2>>
    /\ Len(pack_files[1].data) = 70

----------------------------------------------------------------------------
(* arc.rs: the accessors called directly, with any index *)

\* how a call of each accessor ended: get_file_data returns an Option, whose
\* None carries no error kind; get_file_size returns a u32 and get_file_name
\* a &str, which have no failure value at all
AccessorErrors(d) ==
    [data |-> IF d.ok THEN "none" ELSE "None", size |-> "none", name |-> "none"]

\* the three accessors on the same index
AccessorsAt(a, bytes, i) ==
    [data   |-> get_file_data(a, bytes, i),
     size   |-> get_file_size(a, i),
     name   |-> get_file_name(a, i),
     errors |-> AccessorErrors(get_file_data(a, bytes, i))]

\* a caller indexes the opened archive
AccessorCall ==
    /\ run_pc = "loop"
    /\ acc_pc = "idle"
    /\ \E i \in 0..(MaxEntries + 1) :
         /\ acc_idx' = i
         /\ acc_out' = AccessorsAt(arc, arc_bytes, i)
    /\ acc_pc' = "done"
    /\ UNCHANGED <<overflow_checks, bse_vars, bse_test_vars, fs_vars,
                   unpack_vars, pack_vars, varint_vars, dsc_vars, img_vars>>

\* bytes on both sides of every bound of the scrub
ScrubBytes == {0, 1, 31, 32, 65, 126, 127, 128, 255}

\* archives of one entry whose name field starts with two of these bytes
ScrubArchives ==
    { WriteArchive(v, <<[name |-> <<b1, b2>>, data |-> RawBlob]>>) :
        v \in {1, 2}, b1 \in ScrubBytes, b2 \in ScrubBytes }

ArcFiles ==
    UnpackFiles \cup { [exists |-> TRUE, bytes |-> b] : b \in ScrubArchives }

ArcInit ==
    /\ overflow_checks = FALSE
    /\ BseIdle
    /\ PackIdle
    /\ AccIdle
    /\ VarintIdle
    /\ DscIdle
    /\ ImgIdle
    /\ \E f \in ArcFiles :
         /\ arc_exists = f.exists
         /\ arc_bytes = f.bytes
    /\ arc = NoArc
    /\ run_pc = "start"
    /\ run_result = "none"
    /\ idx = 0
    /\ cur = NoEntry
    /\ attempts = <<>>
    /\ outputs = <<>>

ArcNext == Open \/ AccessorCall

ArcSpec == ArcInit /\ [][ArcNext]_vars

----------------------------------------------------------------------------
(* Claims about the archive accessors and the name scrub *)

\* the 16 bytes of the name field of entry k (from 1) as they lie in the file
RawNameField(k) ==
    SubSeq(arc_bytes, 16 + (k - 1) * MetadataSize(arc.version) + 1,
           16 + (k - 1) * MetadataSize(arc.version) + 16)

\* a byte string that is 7-bit ASCII, hence valid UTF-8
IsAscii(name) == \A j \in 1..Len(name) : name[j] < 128

\* C11: an accessor called with idx >= files_count() reports IndexOutOfBounds
\* (get_file_data, get_file_size and get_file_name alike) instead of
\* returning data, and an entry name that is not valid UTF-8 is reported as
\* InvalidFileName.
C11_IndexOutOfBounds ==
    acc_pc = "done" =>
        /\ acc_idx >= arc.count =>
              /\ acc_out.errors.data = "IndexOutOfBounds"
              /\ acc_out.errors.size = "IndexOutOfBounds"
              /\ acc_out.errors.name = "IndexOutOfBounds"
        /\ (acc_idx < arc.count /\ ~IsAscii(arc.files[acc_idx + 1].name)) =>
              acc_out.errors.name = "InvalidFileName"

\* C12: on load (v1 and v2) every byte of the name field outside 0x20..0x7E
\* that is not NUL padding becomes '_', and bytes inside 0x20..0x7E are kept.
C12_ScrubOutsidePrintable ==
    arc.ok =>
        \A k \in 1..arc.count : \A j \in 1..16 :
            LET b == RawNameField(k)[j]
            IN  /\ (b /= 0 /\ (b < 32 \/ b > 126)) => arc.files[k].name[j] = 95
                /\ (b >= 32 /\ b <= 126) => arc.files[k].name[j] = b

----------------------------------------------------------------------------
(* cbg.rs: the varint decoders read_variable and read_integer *)

\* A u32 is kept as the pair <<high 16 bits, low 16 bits>>.

RECURSIVE BitOr(_, _, _)
\* bitwise or of two n-bit naturals (n >= 1), by halves
BitOr(a, b, n) ==
    IF n = 1 THEN IF a + b > 0 THEN 1 ELSE 0
    ELSE LET h == n \div 2
             m == Pow2(h)
         IN  BitOr(a % m, b % m, h) + m * BitOr(a \div m, b \div m, n - h)

\* x | y on 32-bit words
U32Or(x, y) == <<BitOr(x[1], y[1], 16), BitOr(x[2], y[2], 16)>>

\* (g as u32) << shift for g < 128 and shift < 32: the bits shifted past bit
\* 31 are dropped (the same bits result from the shift of an i32)
U32Shl(g, shift) ==
    IF shift < 16
    THEN <<((g * Pow2(shift)) \div 65536) % 65536, (g * Pow2(shift)) % 65536>>
    ELSE <<(g * Pow2(shift - 16)) % 65536, 0>>

RECURSIVE read_variable_from(_, _, _, _)
\* the tail of one pass of the loop of read_variable: v and shift are
\* updated, c is the byte taken
read_variable_next(ptr, used, v, shift, c) ==
    IF c < 128 THEN [done |-> TRUE, v |-> v, used |-> used]
    ELSE IF shift >= 32 THEN [done |-> TRUE, v |-> v, used |-> used]
    ELSE read_variable_from(ptr, used, v, shift)

\* read_variable with `used` bytes of ptr taken
read_variable_from(ptr, used, v, shift) ==
    IF used >= Len(ptr) THEN [done |-> TRUE, v |-> v, used |-> used]
    ELSE read_variable_next(ptr, used + 1,
                            U32Or(v, U32Shl(ptr[used + 1] % 128, shift)),
                            shift + 7, ptr[used + 1])

\* read_variable: the u32 returned and the bytes taken from ptr
read_variable(ptr) == read_variable_from(ptr, 0, <<0, 0>>, 0)

RECURSIVE read_integer_from(_, _, _, _)
\* the tail of one pass of the loop of read_integer
read_integer_next(data, pos, v, code_length, code) ==
    IF code < 128 THEN [done |-> TRUE, v |-> ToI32(v[1], v[2]), pos |-> pos]
    ELSE read_integer_from(data, pos, v, code_length)

\* read_integer with the cursor at pos; v is the i32 accumulated, by limbs
read_integer_from(data, pos, v, code_length) ==
    IF pos >= Len(data) THEN [done |-> TRUE, v |-> -1, pos |-> pos]
    ELSE IF code_length >= 32 THEN [done |-> TRUE, v |-> -1, pos |-> pos + 1]
    ELSE read_integer_next(data, pos + 1,
                           U32Or(v, U32Shl(data[pos + 1] % 128, code_length)),
                           code_length + 7, data[pos + 1])

\* read_integer: the i32 returned and the position of the cursor
read_integer(data, pos) == read_integer_from(data, pos, <<0, 0>>, 0)

\* w as u32
AsU32(w) == <<Hi16(w), Lo16(w)>>

RECURSIVE read_weight_table_from(_, _, _, _)
\* one pass of the loop of read_weight_table_v2 on the integer r just read
read_weight_table_push(data, r, length, weights) ==
    IF r.v = -1
    THEN [done |-> TRUE, ok |-> FALSE, err |-> "InvalidFormat", weights |-> <<>>,
          pos |-> r.pos]
    ELSE read_weight_table_from(data, r.pos, length, Append(weights, AsU32(r.v)))

read_weight_table_from(data, pos, length, weights) ==
    IF Len(weights) >= length
    THEN [done |-> TRUE, ok |-> TRUE, err |-> "none", weights |-> weights,
          pos |-> pos]
    ELSE read_weight_table_push(data, read_integer(data, pos), length, weights)

\* read_weight_table_v2 on a cursor at pos
read_weight_table_v2(data, pos, length) ==
    read_weight_table_from(data, pos, length, <<>>)

\* read_variable returns a bare u32: it has no value that reports a failure
read_variable_error(r) == "none"

ReadVariable ==
    /\ ~varint_variable.done
    /\ varint_variable' = read_variable(varint_bytes)
    /\ UNCHANGED <<overflow_checks, bse_vars, bse_test_vars, fs_vars,
                   unpack_vars, pack_vars, acc_vars, dsc_vars, img_vars,
                   varint_bytes,
                   varint_n,
                   varint_integer, varint_table>>

ReadInteger ==
    /\ ~varint_integer.done
    /\ varint_integer' = read_integer(varint_bytes, 0)
    /\ UNCHANGED <<overflow_checks, bse_vars, bse_test_vars, fs_vars,
                   unpack_vars, pack_vars, acc_vars, dsc_vars, img_vars,
                   varint_bytes,
                   varint_n,
                   varint_variable, varint_table>>

ReadWeightTable ==
    /\ ~varint_table.done
    /\ varint_table' = read_weight_table_v2(varint_bytes, 0, 1)
    /\ UNCHANGED <<overflow_checks, bse_vars, bse_test_vars, fs_vars,
                   unpack_vars, pack_vars, acc_vars, dsc_vars, img_vars,
                   varint_bytes,
                   varint_n,
                   varint_variable, varint_integer>>

----------------------------------------------------------------------------
(* Inputs of the varint specification *)

\* the five 7-bit groups of the u32 n, least significant first
VarintGroups(n) ==
    <<n[2] % 128, (n[2] \div 128) % 128, (n[2] \div 16384) + 4 * (n[1] % 32),
      (n[1] \div 32) % 128, n[1] \div 4096>>

\* how many groups the shortest encoding of n has
VarintLen(n) ==
    IF n[1] >= 4096 THEN 5
    ELSE IF n[1] >= 32 THEN 4
    ELSE IF n[1] > 0 \/ n[2] >= 16384 THEN 3
    ELSE IF n[2] >= 128 THEN 2
    ELSE 1

\* n in little-endian base 128, the high bit set on every byte but the last
VarintEncode(n) ==
    [k \in 1..VarintLen(n) |->
        VarintGroups(n)[k] + IF k < VarintLen(n) THEN 128 ELSE 0]

\* limbs on both sides of every group boundary
VarintHighLimbs == {0, 1, 31, 32, 4095, 4096, 32767, 32768, 65535}
VarintLowLimbs == {0, 1, 127, 128, 16383, 16384, 65535}

VarintNumbers == { <<hi, lo>> : hi \in VarintHighLimbs, lo \in VarintLowLimbs }

\* byte strings that begin with five continuation bytes
VarintOverlong ==
    { <<128 + g, 128, 128 + g, 128, 128 + h>> \o tail :
        g \in {0, 127}, h \in {0, 1, 127},
        tail \in {<<>>, <<0>>, <<1>>, <<128, 1>>} }

\* byte strings that end inside a varint, and the empty one
VarintTruncated == { <<>>, <<128>>, <<255, 255>>, <<129, 128, 128, 128>> }

VarintInputs ==
    { [bytes |-> VarintEncode(n), n |-> n] : n \in VarintNumbers }
    \cup { [bytes |-> b, n |-> <<>>] : b \in VarintOverlong \cup VarintTruncated }

VarintInit ==
    /\ overflow_checks = FALSE
    /\ BseIdle
    /\ UnpackIdle
    /\ PackIdle
    /\ AccIdle
    /\ DscIdle
    /\ ImgIdle
    /\ \E i \in VarintInputs :
         /\ varint_bytes = i.bytes
         /\ varint_n = i.n
    /\ varint_variable = NotRun
    /\ varint_integer = NotRun
    /\ varint_table = NotRun

VarintNext == ReadVariable \/ ReadInteger \/ ReadWeightTable

VarintSpec == VarintInit /\ [][VarintNext]_vars

----------------------------------------------------------------------------
(* Claims about the varint decoders *)

\* the first five bytes all carry the continuation bit
FiveContinuationBytes(bytes) ==
    Len(bytes) >= 5 /\ \A k \in 1..5 : bytes[k] >= 128

\* C13: for every N in [0, 2^32), decoding the little-endian base-128
\* encoding of N yields N, in read_variable and in read_integer as the CBG v2
\* weight tables use it.
C13_VarintRoundTrip ==
    varint_n /= <<>> =>
        /\ varint_variable.done =>
              /\ varint_variable.v = varint_n
              /\ varint_variable.used = Len(varint_bytes)
        /\ varint_integer.done =>
              /\ AsU32(varint_integer.v) = varint_n
              /\ varint_integer.pos = Len(varint_bytes)
        /\ varint_table.done =>
              /\ varint_table.ok
              /\ varint_table.weights = <<varint_n>>

\* C14: a varint whose first 5 bytes all have the continuation bit set is
\* answered with InvalidFormat instead of a value, in every varint decoder.
C14_VarintRejection ==
    FiveContinuationBytes(varint_bytes) =>
        /\ varint_variable.done =>
              read_variable_error(varint_variable) = "InvalidFormat"
        /\ varint_table.done => varint_table.err = "InvalidFormat"

----------------------------------------------------------------------------
(* decrypt.rs: hash_update.  A u32 hash is the pair <<high 16 bits, low 16
   bits>>. *)

\* edx = 20021 * loword(hash)
hash_update_edx(h) == 20021 * h[2]

\* the low word of eax = 20021 * hiword(hash) + 346 * hash + hiword(edx)
hash_update_eax(h) ==
    (20021 * h[1] + 346 * h[2] + (hash_update_edx(h) \div 65536)) % 65536

\* the hash that hash_update leaves: (loword(eax) << 16) + loword(edx) + 1
hash_update_hash(h) ==
    <<(hash_update_eax(h) + (((hash_update_edx(h) % 65536) + 1) \div 65536))
          % 65536,
      ((hash_update_edx(h) % 65536) + 1) % 65536>>

\* the value that hash_update returns: eax & 0x7FFF
hash_update(h) == hash_update_eax(h) % 32768

RECURSIVE HashRun(_, _)
\* two runs of draws, one after the other
HashRunJoin(a, b) == [hash |-> b.hash, keys |-> a.keys \o b.keys]
\* (the test always holds: it has the first run evaluated before the second
\* one is entered)
HashRunThen(a, n) ==
    IF a.hash[1] >= 0 THEN HashRunJoin(a, HashRun(a.hash, n)) ELSE a

\* n successive draws `hash_update(&mut hash) & 0xFF` and the hash they leave
HashRun(h, n) ==
    IF n = 0 THEN [hash |-> h, keys |-> <<>>]
    ELSE IF n = 1
    THEN [hash |-> hash_update_hash(h), keys |-> <<hash_update(h) % 256>>]
    ELSE HashRunThen(HashRun(h, n \div 2), n - (n \div 2))

----------------------------------------------------------------------------
(* dsc.rs: decrypt *)

\* read32 of the 4 bytes at Rust offset off, as a pair of limbs
read32_pair(d, off) ==
    <<d[off + 3] + 256 * d[off + 4], d[off + 1] + 256 * d[off + 2]>>

\* unsigned comparison of two u32 kept as their 32-bit patterns (a word of
\* 2^31 or more is the negative integer with the same bits)
U32Less(a, b) == IF (a < 0) = (b < 0) THEN a < b ELSE b < 0

\* NodeDSC::new
NodeDSC_new == [has_childs |-> 0, leaf_value |-> 0, childs |-> <<0, 0>>]

\* nodes[i] for i < 1024; `nodes` is kept up to the last node touched, the
\* rest of the 1024 are as NodeDSC::new left them
NodeAt(nodes, i) == IF i < Len(nodes) THEN nodes[i + 1] ELSE NodeDSC_new

\* the bytes v of the code-length table: crypted[n + 32] - key, wrapping
DscLengthsWith(crypted, keys) ==
    [n \in 1..512 |-> (crypted[n + 32] + 256 - keys[n]) % 256]

DscLengths(crypted, hash) == DscLengthsWith(crypted, HashRun(hash, 512).keys)

\* the records (v << 16) + n of the non-zero entries
DscRecords(lengths) ==
    { lengths[n] * 65536 + (n - 1) : n \in { m \in 1..512 : lengths[m] /= 0 } }

\* buffer.sort()
SortedSeq(R) ==
    [k \in 1..Cardinality(R) |->
        CHOOSE r \in R : Cardinality({ q \in R : q < r }) = k - 1]

\* group_count: the records from buffer_cur on whose length is nn
GroupCount(buffer, buffer_cur, nn) ==
    Cardinality({ k \in (buffer_cur + 1)..Len(buffer) :
                    \A m \in (buffer_cur + 1)..k : buffer[m] \div 65536 = nn })

\* the leaf loop indexes vector0 or nodes out of bounds
LeafPanics(b, g) ==
    \E k \in 0..(g - 1) :
        \/ b.v13_idx + k >= 1024
        \/ b.vector0[b.v13_idx + k + 1] >= 1024

\* the last pass of the leaf loop that writes node t
LastLeafPass(b, g, t) ==
    MaxOf({ k \in 0..(g - 1) : b.vector0[b.v13_idx + k + 1] = t })

\* nodes after the leaf loop over the g records of this level
NodesWithLeaves(nodes, buffer, b, g) ==
    [i \in 1..MaxOf({Len(nodes)}
                    \cup { b.vector0[b.v13_idx + k + 1] + 1 : k \in 0..(g - 1) }) |->
        IF \E k \in 0..(g - 1) : b.vector0[b.v13_idx + k + 1] = i - 1
        THEN [has_childs |-> 0,
              leaf_value |-> buffer[b.buffer_cur + 1 + LastLeafPass(b, g, i - 1)] % 512,
              childs     |-> NodeAt(nodes, i - 1).childs]
        ELSE NodeAt(nodes, i - 1)]

\* vector0[v13_idx] in pass j of the allocation loop: the slot may have been
\* written by an earlier pass of this loop, which stores value_set + m at
\* toggle + m
ParentAt(b, g, j) ==
    IF b.v13_idx + g + j - b.toggle >= 0 /\ b.v13_idx + g + j - b.toggle < 2 * j
    THEN b.value_set + (b.v13_idx + g + j - b.toggle)
    ELSE b.vector0[b.v13_idx + g + j + 1]

\* the allocation loop of d passes indexes vector0 or nodes out of bounds
AllocPanics(b, g, d) ==
    \E j \in 0..(d - 1) :
        \/ b.v13_idx + g + j >= 1024
        \/ b.toggle + 2 * j + 1 >= 1024
        \/ ParentAt(b, g, j) >= 1024

\* the last pass of the allocation loop that writes node t
LastAllocPass(b, g, d, t) ==
    MaxOf({ j \in 0..(d - 1) : ParentAt(b, g, j) = t })

\* nodes after the allocation loop of d passes
NodesWithParents(nodes, b, g, d) ==
    [i \in 1..MaxOf({Len(nodes)} \cup { ParentAt(b, g, j) + 1 : j \in 0..(d - 1) }) |->
        IF \E j \in 0..(d - 1) : ParentAt(b, g, j) = i - 1
        THEN [has_childs |-> 1,
              leaf_value |-> NodeAt(nodes, i - 1).leaf_value,
              childs     |-> <<b.value_set + 2 * LastAllocPass(b, g, d, i - 1),
                               b.value_set + 2 * LastAllocPass(b, g, d, i - 1) + 1>>]
        ELSE NodeAt(nodes, i - 1)]

\* vector0 after the allocation loop of d passes
Vector0WithChildren(b, d) ==
    [i \in 1..1024 |->
        IF i - 1 - b.toggle >= 0 /\ i - 1 - b.toggle < 2 * d
        THEN b.value_set + (i - 1 - b.toggle)
        ELSE b.vector0[i]]

\* toggle ^ 0x200
ToggleBank(toggle) == IF toggle >= 512 THEN toggle - 512 ELSE toggle + 512

\* the locals after one pass of the outer loop with g records and d new
\* parents (d = 0 when group_count >= dec0)
BuildAfterLevel(b, g, d) ==
    [vector0    |-> Vector0WithChildren(b, d),
     nn         |-> b.nn + 1,
     toggle     |-> ToggleBank(b.toggle),
     dec0       |-> 2 * (b.dec0 - g),
     value_set  |-> b.value_set + 2 * d,
     v13_idx    |-> b.toggle,
     buffer_cur |-> b.buffer_cur + g]

\* how many parents the pass allocates
ParentCount(b, g) == IF g < b.dec0 THEN b.dec0 - g ELSE 0

\* dsc::decrypt ends in a panic
DscPanic ==
    /\ dsc_pc' = "done"
    /\ dsc_result' = "panic"
    /\ UNCHANGED <<dsc_crypted, dsc_crypted_size, dsc_size, dsc_buffer,
                   dsc_build, dsc_nodes, dsc_stream, dsc_copy, dsc_data, dsc_plan>>

\* the header and the code-length table: lines 37-56
DscEnter ==
    /\ dsc_pc = "call"
    /\ IF Len(dsc_crypted) < 32 + 512
       THEN DscPanic
       ELSE /\ dsc_size' = read32_i32(dsc_crypted, 20)
            /\ dsc_buffer' =
                 SortedSeq(DscRecords(DscLengths(dsc_crypted,
                                                 read32_pair(dsc_crypted, 16))))
            /\ dsc_build' = DscBuildStart
            /\ dsc_nodes' = <<NodeDSC_new>>
            /\ dsc_pc' = "tree"
            /\ UNCHANGED <<dsc_crypted, dsc_crypted_size, dsc_stream, dsc_copy,
                           dsc_data, dsc_result, dsc_plan>>
    /\ UNCHANGED <<overflow_checks, bse_vars, bse_test_vars, fs_vars,
                   unpack_vars, pack_vars, acc_vars, varint_vars, img_vars>>

\* one pass of the outer loop of the tree construction with g records, the
\* nodes already holding this level's leaves: lines 80-97
DscLevelAlloc(g, d, nodes) ==
    IF AllocPanics(dsc_build, g, d)
    THEN DscPanic
    ELSE /\ dsc_nodes' = NodesWithParents(nodes, dsc_build, g, d)
         /\ dsc_build' = BuildAfterLevel(dsc_build, g, d)
         /\ UNCHANGED <<dsc_pc, dsc_crypted, dsc_crypted_size, dsc_size,
                        dsc_buffer, dsc_stream, dsc_copy, dsc_data, dsc_result,
                        dsc_plan>>

\* one pass of the outer loop with g records: lines 67-98
DscLevelWith(g) ==
    IF LeafPanics(dsc_build, g)
    THEN DscPanic
    ELSE DscLevelAlloc(g, ParentCount(dsc_build, g),
                       NodesWithLeaves(dsc_nodes, dsc_buffer, dsc_build, g))

DscLevel ==
    /\ dsc_pc = "tree"
    /\ dsc_build.buffer_cur < Len(dsc_buffer)
    /\ DscLevelWith(GroupCount(dsc_buffer, dsc_build.buffer_cur, dsc_build.nn))
    /\ UNCHANGED <<overflow_checks, bse_vars, bse_test_vars, fs_vars,
                   unpack_vars, pack_vars, acc_vars, varint_vars, img_vars>>

\* how `vec![0u8; size as usize]` can end: a buffer of 2 GiB or more may not
\* be had
AllocOutcomes(size) == IF size < 0 THEN {"Ok", "abort"} ELSE {"Ok"}

\* the end of the tree construction and the set-up of the decode loop:
\* lines 101-111
DscBeginDecode ==
    /\ dsc_pc = "tree"
    /\ dsc_build.buffer_cur >= Len(dsc_buffer)
    /\ \E alloc \in AllocOutcomes(dsc_size) :
         IF alloc = "abort" \/ (overflow_checks /\ dsc_crypted_size < 32 + 512)
         THEN DscPanic
         ELSE /\ dsc_stream' = [DscStreamStart EXCEPT
                                   !.src_end = dsc_crypted_size - (32 + 512)]
              /\ dsc_build' = DscBuildOver
              /\ dsc_pc' = "decode"
              /\ UNCHANGED <<dsc_crypted, dsc_crypted_size, dsc_size, dsc_buffer,
                             dsc_nodes, dsc_copy, dsc_data, dsc_result, dsc_plan>>
    /\ UNCHANGED <<overflow_checks, bse_vars, bse_test_vars, fs_vars,
                   unpack_vars, pack_vars, acc_vars, varint_vars, img_vars>>

RECURSIVE tree_walk(_, _, _, _)
\* the step from nentry to its child for the top bit of `bits`: lines 124-128
tree_walk_bit(nodes, crypted, st, nentry) ==
    tree_walk(nodes, crypted,
              [st EXCEPT !.bits = (st.bits * 2) % 256, !.nbits = st.nbits - 1],
              NodeAt(nodes, nentry).childs[(st.bits \div 128) + 1])

\* the walk from nentry down to a leaf: lines 117-129
tree_walk(nodes, crypted, st, nentry) ==
    IF nentry >= 1024 THEN [panic |-> TRUE, nentry |-> nentry, st |-> st]
    ELSE IF NodeAt(nodes, nentry).has_childs = 0
    THEN [panic |-> FALSE, nentry |-> nentry, st |-> st]
    ELSE IF st.nbits > 0 THEN tree_walk_bit(nodes, crypted, st, nentry)
    ELSE IF 32 + 512 + st.src_ptr >= Len(crypted)
    THEN [panic |-> TRUE, nentry |-> nentry, st |-> st]
    ELSE tree_walk_bit(nodes, crypted,
                       [st EXCEPT !.nbits = 8,
                                  !.bits = crypted[32 + 512 + st.src_ptr + 1],
                                  !.src_ptr = st.src_ptr + 1],
                       nentry)

\* `bytes`: how many bytes complete the 12 bits of a match descriptor
DescriptorBytes(st) == ((11 - st.nbits) \div 8) + 1

\* a byte of the descriptor lies past the end of crypted
DescriptorPanics(crypted, st) ==
    32 + 512 + st.src_ptr + DescriptorBytes(st) - 1 >= Len(crypted)

\* cvalue after the descriptor bytes are taken: lines 135-148
DescriptorValue(crypted, st) ==
    IF DescriptorBytes(st) = 1
    THEN crypted[32 + 512 + st.src_ptr + 1]
           + 256 * (st.bits \div Pow2(8 - st.nbits))
    ELSE crypted[32 + 512 + st.src_ptr + 2]
           + 256 * (crypted[32 + 512 + st.src_ptr + 1]
                      + 256 * (st.bits \div Pow2(8 - st.nbits)))

\* nbits2 - 12
BitsLeftAfterDescriptor(st) == st.nbits + 8 * DescriptorBytes(st) - 12

\* the stream after a descriptor: lines 144, 150-151
StreamAfterDescriptor(crypted, st) ==
    [st EXCEPT !.src_ptr = st.src_ptr + DescriptorBytes(st),
               !.nbits = BitsLeftAfterDescriptor(st),
               !.bits = (DescriptorValue(crypted, st)
                           * Pow2(8 - BitsLeftAfterDescriptor(st))) % 256]

\* offset: line 153
MatchOffset(crypted, st) ==
    (DescriptorValue(crypted, st) \div Pow2(BitsLeftAfterDescriptor(st))) + 2

\* a match token with the stream at st after the walk: lines 133-155; the
\* subtraction of line 154 wraps when overflow is not checked
DscMatch(st, info) ==
    IF DescriptorPanics(dsc_crypted, st)
    THEN DscPanic
    ELSE IF overflow_checks /\ MatchOffset(dsc_crypted, st) > Len(dsc_data)
    THEN DscPanic
    ELSE /\ dsc_copy' = [ring_ptr |-> Len(dsc_data) - MatchOffset(dsc_crypted, st),
                         count    |-> (info % 256) + 2,
                         read     |-> <<>>]
         /\ dsc_stream' = StreamAfterDescriptor(dsc_crypted, st)
         /\ dsc_pc' = "copy"
         /\ UNCHANGED <<dsc_crypted, dsc_crypted_size, dsc_size, dsc_buffer,
                        dsc_build, dsc_nodes, dsc_data, dsc_result, dsc_plan>>

\* a literal token: lines 166-167
DscLiteral(st, info) ==
    /\ dsc_data' = Append(dsc_data, info % 256)
    /\ dsc_stream' = st
    /\ UNCHANGED <<dsc_pc, dsc_crypted, dsc_crypted_size, dsc_size, dsc_buffer,
                   dsc_build, dsc_nodes, dsc_copy, dsc_result, dsc_plan>>

\* one pass of the decode loop after the walk w
DscTokenWith(w) ==
    IF w.panic THEN DscPanic
    ELSE IF (NodeAt(dsc_nodes, w.nentry).leaf_value \div 256) % 256 = 1
    THEN DscMatch(w.st, NodeAt(dsc_nodes, w.nentry).leaf_value)
    ELSE DscLiteral(w.st, NodeAt(dsc_nodes, w.nentry).leaf_value)

\* the condition of the decode loop: line 113
DscLoopCondition ==
    /\ U32Less(dsc_stream.src_ptr, dsc_stream.src_end)
    /\ U32Less(Len(dsc_data), dsc_size)

\* how many bytes of output a run is followed for (a table without symbols
\* makes the loop emit up to decoded_size bytes without taking any input)
MaxDscOutput == 20

\* one pass of the decode loop, up to the copy loop of a match
DscToken ==
    /\ dsc_pc = "decode"
    /\ DscLoopCondition
    /\ Len(dsc_data) < MaxDscOutput
    /\ DscTokenWith(tree_walk(dsc_nodes, dsc_crypted, dsc_stream, 0))
    /\ UNCHANGED <<overflow_checks, bse_vars, bse_test_vars, fs_vars,
                   unpack_vars, pack_vars, acc_vars, varint_vars, img_vars>>

\* the byte data[i] of the 0-initialised vector of which dst_ptr bytes have
\* been written
DataAt(data, i) == IF i >= 0 /\ i < Len(data) THEN data[i + 1] ELSE 0

\* one pass of the copy loop: lines 157-163
DscCopyByte ==
    /\ dsc_pc = "copy"
    /\ Len(dsc_data) < MaxDscOutput
    /\ IF ~U32Less(dsc_copy.ring_ptr, dsc_size) \/ ~U32Less(Len(dsc_data), dsc_size)
       THEN DscPanic
       ELSE /\ dsc_data' = Append(dsc_data, DataAt(dsc_data, dsc_copy.ring_ptr))
            /\ dsc_copy' = [ring_ptr |-> IF dsc_copy.ring_ptr = -1 THEN 0
                                         ELSE dsc_copy.ring_ptr + 1,
                            count    |-> dsc_copy.count - 1,
                            read     |-> <<dsc_copy.ring_ptr, Len(dsc_data)>>]
            /\ dsc_pc' = IF dsc_copy.count = 1 THEN "decode" ELSE "copy"
            /\ UNCHANGED <<dsc_crypted, dsc_crypted_size, dsc_size, dsc_buffer,
                           dsc_build, dsc_nodes, dsc_stream, dsc_result, dsc_plan>>
    /\ UNCHANGED <<overflow_checks, bse_vars, bse_test_vars, fs_vars,
                   unpack_vars, pack_vars, acc_vars, varint_vars, img_vars>>

\* Ok((data, size)): line 171
DscReturn ==
    /\ dsc_pc = "decode"
    /\ ~DscLoopCondition
    /\ dsc_pc' = "done"
    /\ dsc_result' = "Ok"
    /\ UNCHANGED <<dsc_crypted, dsc_crypted_size, dsc_size, dsc_buffer,
                   dsc_build, dsc_nodes, dsc_stream, dsc_copy, dsc_data, dsc_plan>>
    /\ UNCHANGED <<overflow_checks, bse_vars, bse_test_vars, fs_vars,
                   unpack_vars, pack_vars, acc_vars, varint_vars, img_vars>>

----------------------------------------------------------------------------
(* Inputs of the DSC specification *)

\* the seeds of the blobs
DscSeeds == { <<0, 0>>, <<4660, 22136>> }

\* the 512 key bytes of each seed
DscKeys == [seed \in DscSeeds |-> HashRun(seed, 512).keys]

\* code-length tables, as the lengths of their non-zero symbols: symbols
\* 0..255 are literals, 256 + n is a match of n + 2 bytes
DscTables ==
    { [s \in {} |-> 0],
      [s \in {65} |-> 1],
      [s \in {65, 256, 258} |-> IF s = 65 THEN 1 ELSE 2],
      [s \in {65, 66, 256, 257} |-> 2],
      [s \in {256} |-> 1] }

\* tables with one long code: a literal of 8, 9 or 10 bits
DscDeepTables == { [s \in {65} |-> n] : n \in {8, 9, 10} }

\* the four bytes of a decoded size: small ones, and 2^32 - 1
DscSizes ==
    { U32LE(0), U32LE(1), U32LE(2), U32LE(3), U32LE(5), U32LE(9),
      <<255, 255, 255, 255>> }

\* the bytes a bit stream is made of
DscStreamBytes == {0, 32, 128, 255}

\* the length of the longest bit stream, in bytes
MaxDscStream == 2

DscStreams == UNION { [1..n -> DscStreamBytes] : n \in 0..MaxDscStream }

\* the blob of a seed, a decoded size, a code-length table and a bit stream
DscBlob(seed, size, table, stream) ==
    DscMagic \o <<0>> \o <<seed[2] % 256, seed[2] \div 256,
                           seed[1] % 256, seed[1] \div 256>>
      \o size \o Zeros(8)
      \o [n \in 1..512 |->
            ((IF (n - 1) \in DOMAIN table THEN table[n - 1] ELSE 0)
               + DscKeys[seed][n]) % 256]
      \o stream

DscPlans ==
    { [seed |-> seed, size |-> size, table |-> table, stream |-> stream] :
        seed \in {<<0, 0>>}, size \in DscSizes, table \in DscTables,
        stream \in DscStreams }
    \cup { [seed |-> <<4660, 22136>>, size |-> U32LE(2),
            table |-> [s \in {65} |-> 1], stream |-> <<0, 0>>] }
    \cup { [seed |-> <<0, 0>>, size |-> U32LE(1), table |-> table,
            stream |-> stream] :
             table \in DscDeepTables, stream \in {<<>>, <<0, 0>>} }

\* by how much crypted_size exceeds the length of the slice: 16 when
\* unpack_file hands over the payload of a BSE blob with the size of the
\* whole entry (main.rs:65-72)
DscSizeExcess == {0, 16}

\* a blob without its code-length table
DscCutBlob == DscMagic \o Zeros(17)

DscInit ==
    /\ overflow_checks \in BOOLEAN
    /\ BseIdle
    /\ UnpackIdle
    /\ PackIdle
    /\ AccIdle
    /\ VarintIdle
    /\ ImgIdle
    /\ \/ \E plan \in DscPlans :
            /\ dsc_plan = plan
            /\ dsc_crypted = DscBlob(plan.seed, plan.size, plan.table, plan.stream)
            /\ dsc_crypted_size \in
                 { 32 + 512 + Len(plan.stream) + extra : extra \in DscSizeExcess }
       \/ /\ dsc_plan = <<>>
          /\ dsc_crypted = DscCutBlob
          /\ dsc_crypted_size = 32
    /\ dsc_pc = "call"
    /\ dsc_size = 0
    /\ dsc_buffer = <<>>
    /\ dsc_build = DscBuildOver
    /\ dsc_nodes = <<>>
    /\ dsc_stream = DscStreamStart
    /\ dsc_copy = DscNoCopy
    /\ dsc_data = <<>>
    /\ dsc_result = "none"

DscNext ==
    \/ DscEnter
    \/ DscLevel
    \/ DscBeginDecode
    \/ DscToken
    \/ DscCopyByte
    \/ DscReturn

DscSpec == DscInit /\ [][DscNext]_vars

----------------------------------------------------------------------------
(* Claims on dsc::decrypt *)

\* C15: every byte a match copy emits is read from an index that is >= 0 and
\* strictly below the index it is written to.  `read` holds the last copied
\* byte's read and write index; an index of 2^31 or more shows as negative.
C15_MatchReadsBehindWrite ==
    dsc_copy.read /= <<>> =>
        /\ dsc_copy.read[1] >= 0
        /\ dsc_copy.read[1] < dsc_copy.read[2]

RECURSIVE ZeroCodeWalk(_, _, _)
\* the leaf the all-zero code leads to and the length of that code: the walk
\* of lines 117-129 with every bit 0
ZeroCodeWalk(nodes, nentry, depth) ==
    IF nentry >= 1024 \/ depth > 32 THEN [leaf_value |-> 511, depth |-> depth]
    ELSE IF NodeAt(nodes, nentry).has_childs = 0
    THEN [leaf_value |-> NodeAt(nodes, nentry).leaf_value, depth |-> depth]
    ELSE ZeroCodeWalk(nodes, NodeAt(nodes, nentry).childs[1], depth + 1)

\* the bit stream of the blob: what follows header and code-length table
DscStreamOf(crypted) == SubSeq(crypted, 32 + 512 + 1, Len(crypted))

\* a returned call on a blob whose all-zero code is a literal and whose bit
\* stream is made of zero bits, at least one code per byte of decoded_size
ZeroStreamReturned ==
    /\ dsc_pc = "done"
    /\ dsc_result = "Ok"
    /\ ZeroCodeWalk(dsc_nodes, 0, 0).depth > 0
    /\ ZeroCodeWalk(dsc_nodes, 0, 0).leaf_value < 256
    /\ DscStreamOf(dsc_crypted) /= <<>>
    /\ \A i \in DOMAIN DscStreamOf(dsc_crypted) : DscStreamOf(dsc_crypted)[i] = 0
    /\ dsc_size >= 0
    /\ dsc_size * ZeroCodeWalk(dsc_nodes, 0, 0).depth
         <= 8 * Len(DscStreamOf(dsc_crypted))

\* C18: when the all-zero code leads to the literal A and the bit stream is
\* zero bits, the call writes decoded_size bytes, every one of them A.
C18_ZeroStreamAllA ==
    ZeroStreamReturned =>
        /\ Len(dsc_data) = dsc_size
        /\ \A i \in DOMAIN dsc_data :
              dsc_data[i] = ZeroCodeWalk(dsc_nodes, 0, 0).leaf_value

----------------------------------------------------------------------------
(* cbg.rs: HuffmanTree *)

\* u32 values are kept as their 32-bit pattern (2^31 and more show negative)
U32Max == -1

\* a + b in u32, wrapping
U32WrapAdd(a, b) == WrapAddI32(a, b)

\* whether a + b leaves the range of u32
U32AddOverflows(a, b) == U32Less(WrapAddI32(a, b), a)

\* a leaf of node_list: lines 30-36
HuffLeaf(weight) ==
    [valid |-> weight /= 0, is_parent |-> FALSE, weight |-> weight,
     left_child_index |-> 0, right_child_index |-> 0]

\* two partial sums of root_node_weight joined
HuffSumJoin(a, b) ==
    [sum |-> U32WrapAdd(a.sum, b.sum),
     overflow |-> a.overflow \/ b.overflow \/ U32AddOverflows(a.sum, b.sum)]

RECURSIVE HuffWeightSum(_, _, _)
\* root_node_weight after the leaves lo..hi were added (line 37), and whether
\* an addition overflowed on the way
HuffWeightSum(weights, lo, hi) ==
    IF lo > hi THEN [sum |-> 0, overflow |-> FALSE]
    ELSE IF lo = hi THEN [sum |-> weights[lo], overflow |-> FALSE]
    ELSE HuffSumJoin(HuffWeightSum(weights, lo, (lo + hi) \div 2),
                     HuffWeightSum(weights, ((lo + hi) \div 2) + 1, hi))

\* the index of the first valid node, -1 when there is none: lines 52-60
HuffFirstValid(nodes) ==
    IF \E k \in DOMAIN nodes : nodes[k].valid
    THEN MinOf({k - 1 : k \in {j \in DOMAIN nodes : nodes[j].valid}})
    ELSE -1

\* the scan of lines 64-70 from index n on: the first node of least weight
\* among the valid ones lighter than min_weight, else child_node_index as
\* it was
HuffScanFrom(nodes, n, min_weight, child) ==
    LET lighter == {k \in n..(Len(nodes) - 1) :
                      /\ nodes[k + 1].valid
                      /\ U32Less(nodes[k + 1].weight, min_weight)}
    IN  IF lighter = {} THEN child
        ELSE CHOOSE k \in lighter : \A j \in lighter :
                IF nodes[j + 1].weight = nodes[k + 1].weight THEN k <= j
                ELSE U32Less(nodes[k + 1].weight, nodes[j + 1].weight)

\* the v2 rule of lines 51-62, then the scan, given the first valid node
HuffSelectV2(nodes, i, first) ==
    IF first = -1
    THEN HuffScanFrom(nodes, MaxOf({Len(nodes), i + 1}), U32Max, -1)
    ELSE HuffScanFrom(nodes, MaxOf({first + 1, i + 1}),
                      nodes[first + 1].weight, first)

\* child_node_index[i] as lines 46-70 choose it
HuffSelect(nodes, i, v2) ==
    IF v2 THEN HuffSelectV2(nodes, i, HuffFirstValid(nodes))
    ELSE HuffScanFrom(nodes, 0, U32Max, -1)

\* lines 72-77: a chosen node is marked invalid and its weight counted
HuffTake(nodes, c) ==
    IF c = -1 THEN nodes ELSE [nodes EXCEPT ![c + 1].valid = FALSE]

HuffWeightOf(nodes, c) == IF c = -1 THEN 0 ELSE nodes[c + 1].weight

\* the parent pushed at lines 80-88 once both children are chosen
HuffPairSecond(nodes, c0, c1) ==
    [nodes |-> Append(HuffTake(nodes, c1),
                      [valid |-> TRUE, is_parent |-> TRUE,
                       weight |-> U32WrapAdd(HuffWeightOf(nodes, c0),
                                             HuffWeightOf(nodes, c1)),
                       left_child_index |-> c0, right_child_index |-> c1]),
     weight |-> U32WrapAdd(HuffWeightOf(nodes, c0), HuffWeightOf(nodes, c1)),
     overflow |-> U32AddOverflows(HuffWeightOf(nodes, c0),
                                  HuffWeightOf(nodes, c1))]

HuffPairFirst(nodes, c0, v2) ==
    HuffPairSecond(HuffTake(nodes, c0), c0,
                   HuffSelect(HuffTake(nodes, c0), 1, v2))

\* one pass of the loop of lines 41-92
HuffPair(nodes, v2) == HuffPairFirst(nodes, HuffSelect(nodes, 0, v2), v2)

HuffPanic ==
    /\ huff_pc' = "done"
    /\ huff_result' = "panic"
    /\ UNCHANGED <<huff_weights, huff_v2, huff_nodes, huff_root_weight,
                   huff_node_index>>

\* HuffmanTree::new up to its loop: lines 25-39
HuffNew ==
    /\ huff_pc = "call"
    /\ IF overflow_checks
          /\ HuffWeightSum(huff_weights, 1, Len(huff_weights)).overflow
       THEN HuffPanic
       ELSE /\ huff_nodes' = [k \in DOMAIN huff_weights |->
                                HuffLeaf(huff_weights[k])]
            /\ huff_root_weight' =
                 HuffWeightSum(huff_weights, 1, Len(huff_weights)).sum
            /\ huff_pc' = "loop"
            /\ UNCHANGED <<huff_weights, huff_v2, huff_node_index, huff_result>>
    /\ UNCHANGED <<overflow_checks, bse_vars, bse_test_vars, fs_vars,
                   unpack_vars, pack_vars, acc_vars, varint_vars, dsc_vars, stream_vars,
                   cbg_vars>>

\* how many nodes beyond twice the leaves a construction is followed for
MaxHuffExtra == 1

HuffLoopWith(r) ==
    IF overflow_checks /\ r.overflow THEN HuffPanic
    ELSE /\ huff_nodes' = r.nodes
         /\ huff_pc' = IF U32Less(r.weight, huff_root_weight) THEN "loop"
                       ELSE "built"
         /\ UNCHANGED <<huff_weights, huff_v2, huff_root_weight,
                        huff_node_index, huff_result>>

\* one pass of the loop of HuffmanTree::new: lines 41-92
HuffLoop ==
    /\ huff_pc = "loop"
    /\ Len(huff_nodes) < 2 * Len(huff_weights) + MaxHuffExtra
    /\ HuffLoopWith(HuffPair(huff_nodes, huff_v2))
    /\ UNCHANGED <<overflow_checks, bse_vars, bse_test_vars, fs_vars,
                   unpack_vars, pack_vars, acc_vars, varint_vars, dsc_vars, stream_vars,
                   cbg_vars>>

\* decode_token entered on the tree: line 98
HuffDecodeToken ==
    /\ huff_pc = "built"
    /\ huff_pc' = "decode"
    /\ huff_node_index' = Len(huff_nodes) - 1
    /\ UNCHANGED <<huff_weights, huff_v2, huff_nodes, huff_root_weight,
                   huff_result>>
    /\ UNCHANGED <<overflow_checks, bse_vars, bse_test_vars, fs_vars,
                   unpack_vars, pack_vars, acc_vars, varint_vars, dsc_vars, stream_vars,
                   cbg_vars>>

\* one pass of the loop of decode_token, on a bit the reader yields:
\* lines 99-111
HuffDecodeBit ==
    /\ huff_pc = "decode"
    /\ IF huff_node_index < 0 \/ huff_node_index >= Len(huff_nodes)
       THEN HuffPanic
       ELSE IF ~huff_nodes[huff_node_index + 1].is_parent
       THEN /\ huff_pc' = "done"
            /\ huff_result' = "Ok"
            /\ UNCHANGED <<huff_weights, huff_v2, huff_nodes,
                           huff_root_weight, huff_node_index>>
       ELSE \E bit \in {0, 1} :
            /\ huff_node_index' =
                 IF bit = 0
                 THEN huff_nodes[huff_node_index + 1].left_child_index
                 ELSE huff_nodes[huff_node_index + 1].right_child_index
            /\ UNCHANGED <<huff_pc, huff_weights, huff_v2, huff_nodes,
                           huff_root_weight, huff_result>>
    /\ UNCHANGED <<overflow_checks, bse_vars, bse_test_vars, fs_vars,
                   unpack_vars, pack_vars, acc_vars, varint_vars, dsc_vars, stream_vars,
                   cbg_vars>>

\* the weights of the tables: small ones, 2^31 and 2^32 - 1
HuffWeights == {0, 1, 2, 3, (-2147483647) - 1, U32Max}

\* the number of leaves of the largest table
MaxLeaves == 3

HuffTables == UNION { [1..n -> HuffWeights] : n \in 1..MaxLeaves }

HuffInit ==
    /\ overflow_checks \in BOOLEAN
    /\ BseIdle
    /\ UnpackIdle
    /\ PackIdle
    /\ AccIdle
    /\ VarintIdle
    /\ DscIdle
    /\ CbgIdle
    /\ StreamIdle
    /\ huff_pc = "call"
    /\ huff_weights \in HuffTables
    /\ huff_v2 \in BOOLEAN
    /\ huff_nodes = <<>>
    /\ huff_root_weight = 0
    /\ huff_node_index = 0
    /\ huff_result = "none"

HuffNext ==
    \/ HuffNew
    \/ HuffLoop
    \/ HuffDecodeToken
    \/ HuffDecodeBit

HuffSpec == HuffInit /\ [][HuffNext]_vars

RECURSIVE HuffReach(_, _)
\* the nodes reached from node c by following child indices
HuffReach(nodes, c) ==
    IF c < 0 \/ c >= Len(nodes) THEN {}
    ELSE IF ~nodes[c + 1].is_parent THEN {c}
    ELSE {c} \cup HuffReach(nodes, nodes[c + 1].left_child_index)
             \cup HuffReach(nodes, nodes[c + 1].right_child_index)

\* HuffmanTree::new has returned a tree for a table with a non-zero weight
HuffBuiltNonEmpty ==
    /\ huff_pc = "built"
    /\ \E k \in DOMAIN huff_weights : huff_weights[k] /= 0

\* C17: for a table with a non-zero weight the last node is the root: a
\* parent whose weight is the sum of the leaf weights and from which every
\* leaf of non-zero weight is reached.
C17_WeightTree ==
    HuffBuiltNonEmpty =>
        /\ huff_nodes[Len(huff_nodes)].is_parent
        /\ ~HuffWeightSum(huff_weights, 1, Len(huff_weights)).overflow
        /\ huff_nodes[Len(huff_nodes)].weight =
             HuffWeightSum(huff_weights, 1, Len(huff_weights)).sum
        /\ \A k \in DOMAIN huff_weights :
              huff_weights[k] /= 0 =>
                 (k - 1) \in HuffReach(huff_nodes, Len(huff_nodes) - 1)

\* C20: every node marked is_parent has both child indices set, neither
\* is -1.
C20_ParentsHaveBothChildren ==
    huff_pc \in {"built", "decode", "done"} =>
        \A k \in DOMAIN huff_nodes :
            huff_nodes[k].is_parent =>
               /\ huff_nodes[k].left_child_index /= -1
               /\ huff_nodes[k].right_child_index /= -1

----------------------------------------------------------------------------
(* cbg.rs: MsbBitStream, decode_token, decrypt_v1 *)

\* MsbBitStream::new
MsbBitStream_new == [pos |-> 0, cache |-> 0, cache_size |-> 0]

\* get_next_bit: lines 134-145
get_next_bit(data, rd) ==
    IF rd.cache_size = 0
    THEN IF rd.pos >= Len(data)
         THEN [ok |-> FALSE, bit |-> 0, rd |-> rd]
         ELSE [ok |-> TRUE, bit |-> data[rd.pos + 1] \div 128,
               rd |-> [pos |-> rd.pos + 1, cache |-> data[rd.pos + 1],
                       cache_size |-> 7]]
    ELSE [ok |-> TRUE,
          bit |-> (rd.cache \div Pow2(rd.cache_size - 1)) % 2,
          rd |-> [rd EXCEPT !.cache_size = rd.cache_size - 1]]

RECURSIVE decode_token_from(_, _, _, _)
\* one pass of the loop of decode_token on the bit b the reader gave
decode_token_bit(nodes, data, b, node_index) ==
    IF ~b.ok THEN [result |-> "InvalidFormat", token |-> 0, rd |-> b.rd]
    ELSE decode_token_from(nodes, data, b.rd,
                           IF b.bit = 0
                           THEN nodes[node_index + 1].left_child_index
                           ELSE nodes[node_index + 1].right_child_index)

\* decode_token from node_index on: lines 99-112
decode_token_from(nodes, data, rd, node_index) ==
    IF node_index < 0 \/ node_index >= Len(nodes)
    THEN [result |-> "panic", token |-> 0, rd |-> rd]
    ELSE IF ~nodes[node_index + 1].is_parent
    THEN [result |-> "Ok", token |-> node_index, rd |-> rd]
    ELSE decode_token_bit(nodes, data, get_next_bit(data, rd), node_index)

\* decode_token: lines 97-113
decode_token(nodes, data, rd) ==
    decode_token_from(nodes, data, rd, Len(nodes) - 1)

RECURSIVE HuffBuildFrom(_, _, _, _)
\* the end of one pass r of the loop of HuffmanTree::new; `more` is how many
\* further passes are followed
HuffBuildWith(r, root_node_weight, v2, more) ==
    IF overflow_checks /\ r.overflow THEN [result |-> "panic", nodes |-> <<>>]
    ELSE IF ~U32Less(r.weight, root_node_weight)
    THEN [result |-> "Ok", nodes |-> r.nodes]
    ELSE IF more = 0 THEN [result |-> "hang", nodes |-> <<>>]
    ELSE HuffBuildFrom(r.nodes, root_node_weight, v2, more - 1)

\* the loop of HuffmanTree::new: lines 41-92
HuffBuildFrom(nodes, root_node_weight, v2, more) ==
    HuffBuildWith(HuffPair(nodes, v2), root_node_weight, v2, more)

\* HuffmanTree::new, given root_node_weight as the leaves sum to it
HuffmanTree_sum(weights, v2, total) ==
    IF overflow_checks /\ total.overflow
    THEN [result |-> "panic", nodes |-> <<>>]
    ELSE HuffBuildFrom([k \in DOMAIN weights |-> HuffLeaf(weights[k])],
                       total.sum, v2,
                       Cardinality({k \in DOMAIN weights : weights[k] /= 0})
                         + MaxHuffExtra)

\* HuffmanTree::new: lines 25-95
HuffmanTree_new(weights, v2) ==
    HuffmanTree_sum(weights, v2, HuffWeightSum(weights, 1, Len(weights)))

RECURSIVE read_variables(_, _)
\* the values of successive read_variable calls on ptr from offset `used`
\* on, up to the call that empties ptr
read_variables(ptr, used) ==
    IF used >= Len(ptr) THEN <<>>
    ELSE <<ToI32(read_variable(SubSeq(ptr, used + 1, Len(ptr))).v[1],
                 read_variable(SubSeq(ptr, used + 1, Len(ptr))).v[2])>>
         \o read_variables(ptr,
               used + read_variable(SubSeq(ptr, used + 1, Len(ptr))).used)

\* the values of the first calls padded to the 256 of the loop
V1WeightsPad(ws) ==
    IF Len(ws) >= 256 THEN SubSeq(ws, 1, 256) ELSE ws \o Zeros(256 - Len(ws))

\* the 256 weights of decrypt_v1: lines 256-258 (read_variable on an empty
\* slice gives 0)
V1Weights(weights_data) == V1WeightsPad(read_variables(weights_data, 0))

RECURSIVE V1TokensFrom(_, _, _, _)
V1TokensWith(nodes, packed_src, t, n) ==
    IF t.result /= "Ok" THEN [result |-> t.result, data1 |-> <<>>]
    ELSE IF V1TokensFrom(nodes, packed_src, t.rd, n - 1).result /= "Ok"
    THEN V1TokensFrom(nodes, packed_src, t.rd, n - 1)
    ELSE [result |-> "Ok",
          data1 |-> <<t.token % 256>>
                      \o V1TokensFrom(nodes, packed_src, t.rd, n - 1).data1]

\* data1, the n tokens decoded at lines 267-270
V1TokensFrom(nodes, packed_src, rd, n) ==
    IF n = 0 THEN [result |-> "Ok", data1 |-> <<>>]
    ELSE V1TokensWith(nodes, packed_src, decode_token(nodes, packed_src, rd), n)

\* `end - dst_idx` for a count read as u32 (its 32-bit pattern) with `left`
\* bytes of raw_pixels to go: line 283
V1Run(count, left) == IF count < 0 THEN left ELSE MinOf({count, left})

RECURSIVE V1RleFrom(_, _, _, _)
\* lines 284-292, with to_copy bytes copied (none in a zero block); `raw`
\* holds raw_pixels up to dst_idx
V1RleCopy(rest, size, is_zero, raw, run, to_copy) ==
    V1RleFrom(SubSeq(rest, to_copy + 1, Len(rest)), size, ~is_zero,
              raw \o SubSeq(rest, 1, to_copy) \o Zeros(run - to_copy))

V1RleRun(rest, size, is_zero, raw, run) ==
    V1RleCopy(rest, size, is_zero, raw, run,
              IF is_zero THEN 0 ELSE MinOf({run, Len(rest)}))

\* one pass of the loop of lines 281-293 on the count c just read
V1RleWith(psrc, size, is_zero, raw, c) ==
    V1RleRun(SubSeq(psrc, c.used + 1, Len(psrc)), size, is_zero, raw,
             V1Run(ToI32(c.v[1], c.v[2]), size - Len(raw)))

\* the loop of lines 281-293; what it leaves unwritten stays 0
V1RleFrom(psrc, size, is_zero, raw) ==
    IF psrc = <<>> \/ Len(raw) >= size THEN raw \o Zeros(size - Len(raw))
    ELSE V1RleWith(psrc, size, is_zero, raw, read_variable(psrc))

\* raw_pixels after the RLE stage: lines 273-293
V1Rle(data1, size) == V1RleFrom(data1, size, FALSE, <<>>)

\* avg of lines 302-311 for the component at index k, `out` being the
\* components before it as the predictor left them
V1Avg(out, k, pixel_size, stride) ==
    IF (k % stride) \div pixel_size > 0 /\ k \div stride > 0
    THEN (out[k - pixel_size + 1] + out[k - stride + 1]) \div 2
    ELSE IF (k % stride) \div pixel_size > 0 THEN out[k - pixel_size + 1]
    ELSE IF k \div stride > 0 THEN out[k - stride + 1]
    ELSE 0

RECURSIVE V1PredictFrom(_, _, _, _)
\* the predictor of lines 296-317 from component Len(out) on
V1PredictFrom(raw, out, pixel_size, stride) ==
    IF Len(out) >= Len(raw) THEN out
    ELSE V1PredictFrom(raw,
            Append(out, (raw[Len(out) + 1]
                           + V1Avg(out, Len(out), pixel_size, stride)) % 256),
            pixel_size, stride)

V1Predict(raw, pixel_size, stride) == V1PredictFrom(raw, <<>>, pixel_size, stride)

\* the bytes convert_to_rgba pushes for the pixel at offset off: lines
\* 960-1003
RgbaOf(raw, off, bpp) ==
    IF bpp = 32
    THEN IF off + 3 < Len(raw)
         THEN <<raw[off + 3], raw[off + 2], raw[off + 1], raw[off + 4]>>
         ELSE <<>>
    ELSE IF bpp = 24
    THEN IF off + 2 < Len(raw)
         THEN <<raw[off + 3], raw[off + 2], raw[off + 1], 255>>
         ELSE <<>>
    ELSE IF bpp = 8
    THEN IF off < Len(raw)
         THEN <<raw[off + 1], raw[off + 1], raw[off + 1], 255>>
         ELSE <<>>
    ELSE IF bpp = 16
    THEN IF off + 1 < Len(raw)
         THEN <<(((raw[off + 1] % 32) * 8) % 256) + ((raw[off + 1] % 32) \div 4),
                (((((raw[off + 1] + 256 * raw[off + 2]) \div 32) % 64) * 4) % 256)
                  + ((((raw[off + 1] + 256 * raw[off + 2]) \div 32) % 64) \div 16),
                (((raw[off + 2] \div 8) * 8) % 256) + ((raw[off + 2] \div 8) \div 4),
                255>>
         ELSE <<>>
    ELSE <<0, 0, 0, 255>>

RECURSIVE RgbaFrom(_, _, _, _)
\* the pixels pushed from pixel q on, of `count` pixels
RgbaFrom(raw, q, count, bpp) ==
    IF q >= count THEN <<>>
    ELSE RgbaOf(raw, q * (bpp \div 8), bpp) \o RgbaFrom(raw, q + 1, count, bpp)

\* convert_to_rgba: lines 944-1008
convert_to_rgba(raw_pixels, width, height, bpp) ==
    RgbaFrom(raw_pixels, 0, width * height, bpp)

----------------------------------------------------------------------------
(* cbg.rs: decrypt, decrypt_v2 *)

\* a u32 given by its limbs as a number, numbers from 2^31 on shown as
\* 2^31 - 1 (lengths of that size exceed every buffer there is)
U32Nat(p) == IF p[1] >= 32768 THEN 2147483647 ELSE p[1] * 65536 + p[2]

\* x - y in i32, wrapping
WrapSubI32(x, y) ==
    ToI32((Hi16(x) - Hi16(y) - (IF Lo16(x) < Lo16(y) THEN 1 ELSE 0)) % 65536,
          (Lo16(x) - Lo16(y)) % 65536)

\* whether the exact difference x - y leaves the range of i32
SubOverflowsI32(x, y) ==
    /\ (x < 0) /= (y < 0)
    /\ (WrapSubI32(x, y) < 0) /= (x < 0)

\* the header fields of lines 185-199
CbgHeader(crypted) ==
    [width |-> read16(crypted, 16), height |-> read16(crypted, 18),
     bpp |-> U32Nat(read32_pair(crypted, 20)),
     intermediate_len |-> U32Nat(read32_pair(crypted, 32)),
     key |-> read32_pair(crypted, 36),
     enc_len |-> U32Nat(read32_pair(crypted, 40)),
     sum_check |-> read8(crypted, 44), xor_check |-> read8(crypted, 45),
     version |-> read16(crypted, 46)]

\* data0 of lines 202-212, given the key bytes
CbgData0With(crypted, enc_len, keys) ==
    [n \in 1..enc_len |-> (crypted[48 + n] - keys[n]) % 256]

CbgData0(crypted, h) ==
    CbgData0With(crypted, h.enc_len, HashRun(h.key, h.enc_len).keys)

CbgDone(result) ==
    /\ cbg_pc' = "done"
    /\ cbg_result' = result
    /\ UNCHANGED <<cbg_crypted, cbg_hdr, cbg_data0, cbg_data1, cbg_rle, cbg_raw,
                   cbg_pixels, cbg_dims, cbg_v2>>

CbgEnterWith(h, data0) ==
    IF h.enc_len > 0
         /\ (SumBytes(data0, 0, h.enc_len) /= h.sum_check
               \/ XorBytes(data0, 0, h.enc_len) /= h.xor_check)
    THEN CbgDone("CbgDecryptError")
    ELSE IF h.version >= 2 /\ h.enc_len < 128 THEN CbgDone("InvalidFormat")
    ELSE /\ cbg_pc' = IF h.version < 2 THEN "v1" ELSE "v2"
         /\ cbg_hdr' = h
         /\ cbg_data0' = data0
         /\ UNCHANGED <<cbg_crypted, cbg_data1, cbg_rle, cbg_raw, cbg_pixels,
                        cbg_dims, cbg_v2, cbg_result>>

\* cbg::decrypt up to the choice of the version: lines 181-228
CbgEnter ==
    /\ cbg_pc = "call"
    /\ IF Len(cbg_crypted) < 48 THEN CbgDone("InvalidFormat")
       ELSE IF CbgHeader(cbg_crypted).enc_len > Len(cbg_crypted) - 48
       THEN CbgDone("panic")
       ELSE CbgEnterWith(CbgHeader(cbg_crypted),
                         CbgData0(cbg_crypted, CbgHeader(cbg_crypted)))
    /\ UNCHANGED <<overflow_checks, bse_vars, bse_test_vars, fs_vars,
                   unpack_vars, pack_vars, acc_vars, varint_vars, dsc_vars, stream_vars,
                   huff_vars>>

\* packed_src / input_data: what follows the encrypted block (line 221)
CbgRest(crypted, h) == SubSeq(crypted, 48 + h.enc_len + 1, Len(crypted))

CbgV1TokensWith(t) ==
    IF t.result /= "Ok" THEN CbgDone(t.result)
    ELSE /\ cbg_pc' = "rle"
         /\ cbg_data1' = t.data1
         /\ UNCHANGED <<cbg_crypted, cbg_hdr, cbg_data0, cbg_rle, cbg_raw,
                        cbg_pixels, cbg_dims, cbg_v2, cbg_result>>

CbgV1TreeWith(tree) ==
    IF tree.result /= "Ok" THEN CbgDone(tree.result)
    ELSE CbgV1TokensWith(V1TokensFrom(tree.nodes, CbgRest(cbg_crypted, cbg_hdr),
                                      MsbBitStream_new,
                                      cbg_hdr.intermediate_len))

\* decrypt_v1: the weights, the tree and the tokens, lines 251-270
CbgV1Tree ==
    /\ cbg_pc = "v1"
    /\ CbgV1TreeWith(HuffmanTree_new(V1Weights(cbg_data0), FALSE))
    /\ UNCHANGED <<overflow_checks, bse_vars, bse_test_vars, fs_vars,
                   unpack_vars, pack_vars, acc_vars, varint_vars, dsc_vars, stream_vars,
                   huff_vars>>

\* pixel_size and stride of lines 273-274
PixelSize(h) == h.bpp \div 8
Stride(h) == h.width * PixelSize(h)

\* decrypt_v1: the RLE stage, lines 273-293
CbgV1Rle ==
    /\ cbg_pc = "rle"
    /\ cbg_pc' = "predict"
    /\ cbg_rle' = V1Rle(cbg_data1, Stride(cbg_hdr) * cbg_hdr.height)
    /\ UNCHANGED <<cbg_crypted, cbg_hdr, cbg_data0, cbg_data1, cbg_raw,
                   cbg_pixels, cbg_dims, cbg_v2, cbg_result>>
    /\ UNCHANGED <<overflow_checks, bse_vars, bse_test_vars, fs_vars,
                   unpack_vars, pack_vars, acc_vars, varint_vars, dsc_vars, stream_vars,
                   huff_vars>>

\* decrypt_v1: the predictor, lines 296-317
CbgV1Predict ==
    /\ cbg_pc = "predict"
    /\ cbg_pc' = "convert"
    /\ cbg_raw' = V1Predict(cbg_rle, PixelSize(cbg_hdr), Stride(cbg_hdr))
    /\ UNCHANGED <<cbg_crypted, cbg_hdr, cbg_data0, cbg_data1, cbg_rle,
                   cbg_pixels, cbg_dims, cbg_v2, cbg_result>>
    /\ UNCHANGED <<overflow_checks, bse_vars, bse_test_vars, fs_vars,
                   unpack_vars, pack_vars, acc_vars, varint_vars, dsc_vars, stream_vars,
                   huff_vars>>

\* decrypt_v1: convert_to_rgba and the return, line 318
CbgV1Convert ==
    /\ cbg_pc = "convert"
    /\ cbg_pc' = "done"
    /\ cbg_result' = "Ok"
    /\ cbg_pixels' = convert_to_rgba(cbg_raw, cbg_hdr.width, cbg_hdr.height,
                                     cbg_hdr.bpp)
    /\ cbg_dims' = <<cbg_hdr.width, cbg_hdr.height>>
    /\ UNCHANGED <<cbg_crypted, cbg_hdr, cbg_data0, cbg_data1, cbg_rle, cbg_raw,
                   cbg_v2>>
    /\ UNCHANGED <<overflow_checks, bse_vars, bse_test_vars, fs_vars,
                   unpack_vars, pack_vars, acc_vars, varint_vars, dsc_vars, stream_vars,
                   huff_vars>>

RECURSIVE WeightTableRun(_, _, _)
WeightTableJoin(a, b) ==
    [ok |-> b.ok, weights |-> a.weights \o b.weights, pos |-> b.pos]

\* the rest of a table after its first part a
WeightTableThen(a, data, n) ==
    IF ~a.ok THEN a ELSE WeightTableJoin(a, WeightTableRun(data, a.pos, n))

WeightTableOne(r) ==
    IF r.v = -1 THEN [ok |-> FALSE, weights |-> <<>>, pos |-> r.pos]
    ELSE [ok |-> TRUE, weights |-> <<r.v>>, pos |-> r.pos]

\* read_weight_table_v2 for `length` weights with the cursor at pos: lines
\* 891-901; the weights are kept as their 32-bit pattern
WeightTableRun(data, pos, length) ==
    IF length = 0 THEN [ok |-> TRUE, weights |-> <<>>, pos |-> pos]
    ELSE IF length = 1 THEN WeightTableOne(read_integer(data, pos))
    ELSE WeightTableThen(WeightTableRun(data, pos, length \div 2), data,
                         length - (length \div 2))

\* lines 331-335: the two tables and their trees, in the order of the code
V2TablesSecond(tree1, t2) ==
    IF tree1.result /= "Ok" THEN [result |-> tree1.result, pos |-> 0]
    ELSE IF ~t2.ok THEN [result |-> "InvalidFormat", pos |-> 0]
    ELSE [result |-> HuffmanTree_new(t2.weights, TRUE).result, pos |-> t2.pos]

V2TablesFirst(input, t1) ==
    IF ~t1.ok THEN [result |-> "InvalidFormat", pos |-> 0]
    ELSE V2TablesSecond(HuffmanTree_new(t1.weights, TRUE),
                        WeightTableRun(input, t1.pos, 176))

V2Tables(input) == V2TablesFirst(input, WeightTableRun(input, 0, 16))

\* lines 337-338
AlignedSize(x) == (((x + 7) \div 8) * 8) % 65536

RECURSIVE V2OffsetsFrom(_, _, _, _, _)
\* the loop of lines 361-364 from the cursor at pos on
V2OffsetsFrom(input, pos, count, input_base, offsets) ==
    IF Len(offsets) >= count
    THEN [result |-> "Ok", offsets |-> offsets, pos |-> pos]
    ELSE IF pos + 4 > Len(input)
    THEN [result |-> "Io", offsets |-> offsets, pos |-> pos]
    ELSE IF overflow_checks /\ SubOverflowsI32(read32_i32(input, pos), input_base)
    THEN [result |-> "panic", offsets |-> offsets, pos |-> pos]
    ELSE V2OffsetsFrom(input, pos + 4, count, input_base,
                       Append(offsets,
                              WrapSubI32(read32_i32(input, pos), input_base)))

\* what unpack_block gives on the slice `input`: it returns at line 527 when
\* the block size reads as -1; the decoding of any other block is not
\* followed, it succeeds, fails or panics
UnpackBlockOutcomes(input) ==
    IF read_variable(input).v = <<65535, 65535>> THEN {"skip"}
    ELSE {"Ok", "InvalidFormat", "panic"}

RECURSIVE V2BlocksFrom(_, _, _, _, _)
\* the call of unpack_block for block i: lines 458-469
V2BlockCall(dinput, offsets, i, y_blocks, pad_skip, block_offset, length) ==
    IF length < 0 /\ block_offset + length >= 0
    THEN {[result |-> "panic", decoded |-> 0]}
    ELSE UNION {
           IF o \in {"InvalidFormat", "panic"}
           THEN {[result |-> o, decoded |-> 0]}
           ELSE {[r EXCEPT !.decoded = r.decoded + (IF o = "Ok" THEN 1 ELSE 0)] :
                   r \in V2BlocksFrom(dinput, offsets, i + 1, y_blocks, pad_skip)}
           : o \in UnpackBlockOutcomes(
                      SubSeq(dinput, block_offset + 1,
                             IF length < 0 THEN Len(dinput)
                             ELSE MinOf({block_offset + length, Len(dinput)})))}

\* lines 443-456 for block i, block_offset and next_offset being known
V2BlockAt(dinput, offsets, i, y_blocks, pad_skip, block_offset, next_offset) ==
    IF overflow_checks /\ SubOverflowsI32(next_offset, block_offset)
    THEN {[result |-> "panic", decoded |-> 0]}
    ELSE IF block_offset < 0 \/ block_offset >= Len(dinput)
    THEN V2BlocksFrom(dinput, offsets, i + 1, y_blocks, pad_skip)
    ELSE V2BlockCall(dinput, offsets, i, y_blocks, pad_skip, block_offset,
                     WrapSubI32(next_offset, block_offset))

\* the loop of lines 442-472 from block i on: the ways it can end, with the
\* number of blocks that were decoded
V2BlocksFrom(dinput, offsets, i, y_blocks, pad_skip) ==
    IF i >= y_blocks THEN {[result |-> "Ok", decoded |-> 0]}
    ELSE IF overflow_checks /\ AddOverflowsI32(offsets[i + 1], pad_skip)
    THEN {[result |-> "panic", decoded |-> 0]}
    ELSE V2BlockAt(dinput, offsets, i, y_blocks, pad_skip,
                   WrapAddI32(offsets[i + 1], pad_skip),
                   IF i + 1 = y_blocks THEN Len(dinput) ELSE offsets[i + 2])

\* unpack_alpha: lines 820-889; the loop of lines 836-886 is not followed
\* when there is output to fill
UnpackAlphaOutcomes(input, offset, output_len) ==
    IF offset < 0 \/ offset >= Len(input) THEN {"false"}
    ELSE IF Len(input) - offset < 4 THEN {"Io"}
    ELSE IF read32_pair(input, offset) /= <<0, 1>> THEN {"false"}
    ELSE IF output_len <= 3 THEN {"true"}
    ELSE {"true", "false", "Io"}

\* the buffer `output` at line 506 when no block and no alpha was written
V2BlankOutput(len, has_alpha) ==
    [k \in 1..len |-> IF k % 4 = 0 /\ ~has_alpha THEN 255 ELSE 0]

\* lines 474-506, once the loop over the blocks ended as b
V2Finish(h, dinput, offsets, aw, ah, b) ==
    IF b.result /= "Ok" THEN {[result |-> b.result]}
    ELSE { IF a = "Io" THEN [result |-> "Io"]
           ELSE [result |-> "Ok", decoded |-> b.decoded, alpha |-> a,
                 pixels |-> V2BlankOutput(aw * ah * 4, a = "true"),
                 dims |-> <<aw, ah>>]
           : a \in IF h.bpp = 32
                   THEN UnpackAlphaOutcomes(dinput, offsets[(ah \div 8) + 1],
                                            aw * ah * 4)
                   ELSE {"false"} }

\* lines 340-472, once the offsets were read as o
V2Blocks(h, input, aw, ah, o) ==
    IF o.result /= "Ok" THEN {[result |-> o.result]}
    ELSE UNION { V2Finish(h, SubSeq(input, o.pos + 1, Len(input)), o.offsets,
                          aw, ah, b)
                 : b \in V2BlocksFrom(SubSeq(input, o.pos + 1, Len(input)),
                                      o.offsets, 0, ah \div 8,
                                      ((aw \div 8) + 7) \div 8) }

\* lines 337-364, once the tables were read as t
V2Offsets(h, input, aw, ah, t) ==
    IF t.result /= "Ok" THEN {[result |-> t.result]}
    ELSE V2Blocks(h, input, aw, ah,
                  V2OffsetsFrom(input, t.pos, (ah \div 8) + 1,
                                t.pos + ((ah \div 8) + 1) * 4, <<>>))

\* decrypt_v2: the ways it can end
decrypt_v2(h, input) ==
    V2Offsets(h, input, AlignedSize(h.width), AlignedSize(h.height),
              V2Tables(input))

\* decrypt_v2 and the return of lines 226-230
CbgV2 ==
    /\ cbg_pc = "v2"
    /\ \E r \in decrypt_v2(cbg_hdr, CbgRest(cbg_crypted, cbg_hdr)) :
          IF r.result /= "Ok" THEN CbgDone(r.result)
          ELSE /\ cbg_pc' = "done"
               /\ cbg_result' = "Ok"
               /\ cbg_pixels' = r.pixels
               /\ cbg_dims' = r.dims
               /\ cbg_v2' = [decoded |-> r.decoded, alpha |-> r.alpha]
               /\ UNCHANGED <<cbg_crypted, cbg_hdr, cbg_data0, cbg_data1,
                              cbg_rle, cbg_raw>>
    /\ UNCHANGED <<overflow_checks, bse_vars, bse_test_vars, fs_vars,
                   unpack_vars, pack_vars, acc_vars, varint_vars, dsc_vars, stream_vars,
                   huff_vars>>

----------------------------------------------------------------------------
(* Inputs of the CBG specification *)

\* the key of the blobs and the key bytes of a v2 block
CbgKey == <<4660, 22136>>
CbgKeys == HashRun(CbgKey, 128).keys

\* the bytes of a blob: header, encrypted block, rest; bad_check 1 is a
\* sum_check that is off by one, bad_check 2 an xor_check that is
CbgBlob(p) ==
    CbgMagic \o <<0>>
      \o <<p.width % 256, p.width \div 256, p.height % 256, p.height \div 256>>
      \o U32LE(p.bpp) \o Zeros(8) \o U32LE(p.intermediate_len)
      \o <<CbgKey[2] % 256, CbgKey[2] \div 256, CbgKey[1] % 256,
           CbgKey[1] \div 256>>
      \o U32LE(Len(p.data0))
      \o <<(SumBytes(p.data0, 0, Len(p.data0))
              + (IF p.bad_check = 1 THEN 1 ELSE 0)) % 256,
           (XorBytes(p.data0, 0, Len(p.data0))
              + (IF p.bad_check = 2 THEN 1 ELSE 0)) % 256,
           p.version % 256, p.version \div 256>>
      \o [n \in 1..Len(p.data0) |-> (p.data0[n] + CbgKeys[n]) % 256]
      \o p.rest

\* the varints of weight tables: weight 1 for symbol 0 alone; no weight at
\* all; symbols 1 and 3; 2^32 - 1 for symbol 0; 2^31, 2^31 and 1
V1WeightData ==
    { <<1>>, <<>>, <<0, 1, 0, 1>>, <<255, 255, 255, 255, 15>>,
      <<128, 128, 128, 128, 8, 128, 128, 128, 128, 8, 1>> }

\* the encoded streams of v1 blobs, and how many tokens are asked of them
V1Packed == { <<>>, <<0>>, <<96>>, <<255>> }
MaxIntermediate == 3

\* the sides of v1 images
MaxSide == 2

V1Plans ==
    { [version |-> 1, width |-> w, height |-> h, bpp |-> bpp,
       intermediate_len |-> n, data0 |-> d, rest |-> s, bad_check |-> 0] :
        w \in 1..MaxSide, h \in 1..MaxSide, bpp \in {0, 8, 16, 24, 32},
        n \in 0..MaxIntermediate, d \in V1WeightData, s \in V1Packed }
    \cup { [version |-> 1, width |-> 1, height |-> 1, bpp |-> 24,
            intermediate_len |-> 0, data0 |-> d, rest |-> <<>>,
            bad_check |-> b] :
            d \in {<<>>, <<1>>, <<0, 1, 0, 1>>}, b \in {1, 2} }

\* the two weight tables of a v2 blob, one byte a weight: symbol 0 alone in
\* the first, symbols 0 and 1 in the second
V2TableBytes == <<1>> \o Zeros(15) \o <<1, 1>> \o Zeros(174)

\* what follows the tables of a v2 blob whose image is one block high: the
\* two offsets and the blocks.  The offsets are taken from the start of the
\* rest (input_base is 200 there).
V2Tails ==
    { \* no block data at all
      U32LE(200) \o U32LE(200),
      \* a block whose size reads as -1
      U32LE(200) \o U32LE(205) \o <<255, 255, 255, 255, 15>>,
      \* a block that is decoded
      U32LE(200) \o U32LE(202) \o <<64, 0>>,
      \* the same followed by an alpha section that does not start with 1
      U32LE(200) \o U32LE(205) \o <<255, 255, 255, 255, 15>> \o U32LE(0),
      \* ... and by one that does
      U32LE(200) \o U32LE(205) \o <<255, 255, 255, 255, 15>> \o U32LE(1),
      \* an alpha section cut short
      U32LE(200) \o U32LE(205) \o <<255, 255, 255, 255, 15, 1>>,
      \* an offset of -2^31, and one below input_base
      <<0, 0, 0, 128>> \o U32LE(200),
      U32LE(100) \o U32LE(200) \o <<0>>,
      \* one offset only
      U32LE(200) }

V2Plans ==
    { [version |-> 2, width |-> w, height |-> h, bpp |-> bpp,
       intermediate_len |-> 0, data0 |-> Zeros(128),
       rest |-> V2TableBytes \o t, bad_check |-> 0] :
        w \in {1, 9, 65535}, h \in {1, 65535}, bpp \in {8, 24, 32},
        t \in V2Tails }
    \cup { [version |-> 2, width |-> 1, height |-> 1, bpp |-> 24,
            intermediate_len |-> 0, data0 |-> d, rest |-> r, bad_check |-> 0] :
            d \in {Zeros(127), Zeros(128)},
            r \in {<<>>, SubSeq(V2TableBytes, 1, 100)} }
    \cup { [version |-> 2, width |-> 1, height |-> 1, bpp |-> 24,
            intermediate_len |-> 0, data0 |-> Zeros(128),
            rest |-> V2TableBytes \o U32LE(200) \o U32LE(200),
            bad_check |-> b] : b \in {1, 2} }

\* a blob that is shorter than a header
CbgCutBlob == CbgMagic \o Zeros(32)

CbgInit ==
    /\ overflow_checks \in BOOLEAN
    /\ BseIdle
    /\ UnpackIdle
    /\ PackIdle
    /\ AccIdle
    /\ VarintIdle
    /\ DscIdle
    /\ HuffIdle
    /\ StreamIdle
    /\ cbg_pc = "call"
    /\ cbg_crypted \in {CbgBlob(p) : p \in V1Plans \cup V2Plans}
                          \cup {CbgCutBlob}
    /\ cbg_hdr = <<>>
    /\ cbg_data0 = <<>>
    /\ cbg_data1 = <<>>
    /\ cbg_rle = <<>>
    /\ cbg_raw = <<>>
    /\ cbg_pixels = <<>>
    /\ cbg_dims = <<>>
    /\ cbg_v2 = <<>>
    /\ cbg_result = "none"

CbgNext ==
    \/ CbgEnter
    \/ CbgV1Tree
    \/ CbgV1Rle
    \/ CbgV1Predict
    \/ CbgV1Convert
    \/ CbgV2

CbgSpec == CbgInit /\ [][CbgNext]_vars

----------------------------------------------------------------------------
(* Claims on cbg::decrypt *)

\* x rounded up to the next multiple of 8
RoundUp8(x) == ((x + 7) \div 8) * 8

\* C16: a successful cbg::decrypt returns W*H*4 bytes for the (W, H) it
\* returns; v1 returns the header dimensions, v2 the header dimensions each
\* rounded up to the next multiple of 8.
C16_RgbaDimensions ==
    (cbg_pc = "done" /\ cbg_result = "Ok") =>
        /\ Len(cbg_pixels) = cbg_dims[1] * cbg_dims[2] * 4
        /\ cbg_dims = IF cbg_hdr.version < 2
                      THEN <<cbg_hdr.width, cbg_hdr.height>>
                      ELSE <<RoundUp8(cbg_hdr.width), RoundUp8(cbg_hdr.height)>>

\* the table with weight 1 for symbol 0 and 0 elsewhere
S4Weights == <<1>> \o Zeros(255)

\* a call has ended on a v1 blob with that table, a passing checksum and an
\* empty encoded stream
S4Returned ==
    /\ cbg_pc = "done"
    /\ Len(cbg_crypted) >= 48
    /\ CbgHeader(cbg_crypted).version < 2
    /\ CbgHeader(cbg_crypted).enc_len > 0
    /\ CbgHeader(cbg_crypted).enc_len <= Len(cbg_crypted) - 48
    /\ SumBytes(CbgData0(cbg_crypted, CbgHeader(cbg_crypted)), 0,
                CbgHeader(cbg_crypted).enc_len)
         = CbgHeader(cbg_crypted).sum_check
    /\ XorBytes(CbgData0(cbg_crypted, CbgHeader(cbg_crypted)), 0,
                CbgHeader(cbg_crypted).enc_len)
         = CbgHeader(cbg_crypted).xor_check
    /\ V1Weights(CbgData0(cbg_crypted, CbgHeader(cbg_crypted))) = S4Weights
    /\ CbgRest(cbg_crypted, CbgHeader(cbg_crypted)) = <<>>

\* C19: on such a blob cbg::decrypt succeeds, the raw buffer is all zero, the
\* predictor leaves it unchanged, and with bpp = 24 the output is
\* width*height pixels (0, 0, 0, 255).
C19_SingleSymbolImage ==
    S4Returned =>
        /\ cbg_result = "Ok"
        /\ \A k \in DOMAIN cbg_rle : cbg_rle[k] = 0
        /\ cbg_raw = cbg_rle
        /\ CbgHeader(cbg_crypted).bpp = 24 =>
              /\ Len(cbg_pixels)
                   = 4 * CbgHeader(cbg_crypted).width
                       * CbgHeader(cbg_crypted).height
              /\ \A k \in DOMAIN cbg_pixels :
                    cbg_pixels[k] = IF k % 4 = 0 THEN 255 ELSE 0

\* the length of the vector that line 171 returns: `data` is allocated with
\* decoded_size bytes at line 101 and is only ever indexed, so a write at an
\* index >= decoded_size panics and the length stays what it was
DscReturnedLen == IF U32Less(dsc_size, Len(dsc_data)) THEN Len(dsc_data) ELSE dsc_size

\* a step of the decode loop: the write index stays within decoded_size and
\* the loop is left only by the return of line 171
DecodeStopsStep ==
    dsc_pc \in {"decode", "copy"} =>
        /\ ~U32Less(dsc_size, Len(dsc_data'))
        /\ dsc_pc' = "done" =>
              (dsc_result' = "Ok" /\ DscReturnedLen' = dsc_size)

\* C21: once the decode loop is entered the write index never exceeds
\* decoded_size, in the middle of a match copy too, and the loop ends only by
\* stopping: the call returns a buffer of exactly decoded_size bytes.
C21_DecodeStops == [][DecodeStopsStep]_vars

----------------------------------------------------------------------------
(* cbg.rs: unpack_alpha *)

\* unpack_alpha returns
AlphaDone(result) ==
    /\ alpha_pc' = "done"
    /\ alpha_result' = result
    /\ UNCHANGED <<alpha_input, alpha_offset, alpha_width, alpha_output,
                   alpha_rd, alpha_copy>>

\* the checks ahead of the loop: lines 809-830
AlphaEnter ==
    /\ alpha_pc = "call"
    /\ IF alpha_offset < 0 \/ alpha_offset >= Len(alpha_input)
       THEN AlphaDone("false")
       ELSE IF alpha_offset + 4 > Len(alpha_input)
       THEN AlphaDone("Io")
       ELSE IF ReadU32(alpha_input, alpha_offset) /= 1
       THEN AlphaDone("false")
       ELSE /\ alpha_rd' = AlphaLoopStart(alpha_offset + 4)
            /\ alpha_pc' = "loop"
            /\ UNCHANGED <<alpha_input, alpha_offset, alpha_width, alpha_output,
                           alpha_copy, alpha_result>>
    /\ UNCHANGED <<overflow_checks, bse_vars, bse_test_vars, fs_vars,
                   unpack_vars, pack_vars, acc_vars, varint_vars, dsc_vars,
                   huff_vars, cbg_vars, bits_vars>>

\* `x |= !0x3F` under `x > 0x1F`, and `x = x - 64` under `x > 31`: on a
\* value below 64 the two statements do the same
AlphaExtend6(x) == IF x > 31 THEN x - 64 ELSE x

\* `y |= !0x7` under `y != 0`, and `y = y - 8` under `y != 0`: on a value
\* of 1..7 the two statements do the same
AlphaLower8(y) == IF y /= 0 THEN y - 8 ELSE y

\* x as line 868 uses it: lines 833-836, then 846-848
AlphaX(v) == AlphaExtend6(AlphaExtend6(v % 64))

\* y as line 868 uses it: lines 837-840, then 862-864
AlphaY(v) == AlphaLower8(AlphaLower8((v \div 64) % 8))

\* count: line 866
AlphaCount(v) == ((v \div 512) % 128) + 3

\* src: line 868
AlphaSrc(dst, v, width) == dst + (AlphaX(v) + AlphaY(v) * width) * 4

\* the locals of a copy when its loop is about to be entered
AlphaDecoded(rd, v) ==
    [v |-> v, x |-> AlphaX(v), y |-> AlphaY(v), count |-> AlphaCount(v),
     src |-> AlphaSrc(rd.dst, v, alpha_width), k |-> 0, read |-> <<>>]

\* a control bit of 1 with the cursor at the 16-bit value: lines 832-872
AlphaCopyWith(rd, v) ==
    IF AlphaSrc(rd.dst, v, alpha_width) < 0
         \/ AlphaSrc(rd.dst, v, alpha_width) >= rd.dst
    THEN /\ alpha_copy' = AlphaDecoded(rd, v)
         /\ alpha_pc' = "done"
         /\ alpha_result' = "false"
         /\ UNCHANGED <<alpha_input, alpha_offset, alpha_width, alpha_output,
                        alpha_rd>>
    ELSE /\ alpha_copy' = AlphaDecoded(rd, v)
         /\ alpha_rd' = [rd EXCEPT !.pos = rd.pos + 2]
         /\ alpha_pc' = "copy"
         /\ UNCHANGED <<alpha_input, alpha_offset, alpha_width, alpha_output,
                        alpha_result>>

\* one pass of the loop with ctl as line 827-830 leave it
AlphaPassWith(rd) ==
    IF rd.ctl % 2 /= 0
    THEN IF rd.pos + 2 > Len(alpha_input)
         THEN AlphaDone("Io")
         ELSE AlphaCopyWith(rd, read16(alpha_input, rd.pos))
    ELSE IF rd.pos >= Len(alpha_input)
    THEN AlphaDone("Io")
    ELSE /\ alpha_output' = [alpha_output EXCEPT
                                ![rd.dst + 1] = read8(alpha_input, rd.pos)]
         /\ alpha_rd' = [rd EXCEPT !.pos = rd.pos + 1, !.dst = rd.dst + 4]
         /\ UNCHANGED <<alpha_pc, alpha_input, alpha_offset, alpha_width,
                        alpha_copy, alpha_result>>

\* one pass of the loop, up to the copy loop of a control bit of 1:
\* lines 826-832 and 880-885
AlphaPass ==
    /\ alpha_pc = "loop"
    /\ alpha_rd.dst < Len(alpha_output)
    /\ IF alpha_rd.ctl \div 2 /= 1
       THEN AlphaPassWith([alpha_rd EXCEPT !.ctl = alpha_rd.ctl \div 2])
       ELSE IF alpha_rd.pos >= Len(alpha_input)
       THEN AlphaDone("Io")
       ELSE AlphaPassWith([alpha_rd EXCEPT
                              !.ctl = read8(alpha_input, alpha_rd.pos) + 256,
                              !.pos = alpha_rd.pos + 1])
    /\ UNCHANGED <<overflow_checks, bse_vars, bse_test_vars, fs_vars,
                   unpack_vars, pack_vars, acc_vars, varint_vars, dsc_vars,
                   huff_vars, cbg_vars, bits_vars>>

\* one pass of the copy loop: lines 873-878
AlphaCopyByte ==
    /\ alpha_pc = "copy"
    /\ IF alpha_rd.dst < Len(alpha_output)
       THEN /\ alpha_output' = [alpha_output EXCEPT
                                   ![alpha_rd.dst + 1] =
                                       alpha_output[alpha_copy.src + 1]]
            /\ alpha_copy' = [alpha_copy EXCEPT
                                 !.k = alpha_copy.k + 1,
                                 !.read = <<alpha_copy.src, alpha_rd.dst,
                                            alpha_copy.k>>]
       ELSE /\ alpha_copy' = [alpha_copy EXCEPT !.k = alpha_copy.k + 1]
            /\ UNCHANGED alpha_output
    /\ alpha_rd' = [alpha_rd EXCEPT !.dst = alpha_rd.dst + 4]
    /\ alpha_pc' = IF alpha_copy.k + 1 = alpha_copy.count THEN "loop" ELSE "copy"
    /\ UNCHANGED <<alpha_input, alpha_offset, alpha_width, alpha_result>>
    /\ UNCHANGED <<overflow_checks, bse_vars, bse_test_vars, fs_vars,
                   unpack_vars, pack_vars, acc_vars, varint_vars, dsc_vars,
                   huff_vars, cbg_vars, bits_vars>>

\* Ok(true): line 888
AlphaReturn ==
    /\ alpha_pc = "loop"
    /\ alpha_rd.dst >= Len(alpha_output)
    /\ AlphaDone("true")
    /\ UNCHANGED <<overflow_checks, bse_vars, bse_test_vars, fs_vars,
                   unpack_vars, pack_vars, acc_vars, varint_vars, dsc_vars,
                   huff_vars, cbg_vars, bits_vars>>

----------------------------------------------------------------------------
(* Inputs of the alpha specification *)

\* an alpha section is written as its operations: a literal alpha byte, or
\* a copy with its 16-bit value
AlphaLiteral(b) == [copy |-> FALSE, v |-> b]
AlphaCopyOp(v) == [copy |-> TRUE, v |-> v]

RECURSIVE AlphaCtlByte(_, _)
\* the control byte of up to 8 operations, the first one in bit 0
AlphaCtlByte(ops, i) ==
    IF i > Len(ops) THEN 0
    ELSE (IF ops[i].copy THEN Pow2(i - 1) ELSE 0) + AlphaCtlByte(ops, i + 1)

RECURSIVE AlphaPayload(_, _)
\* the bytes the operations take from the cursor
AlphaPayload(ops, i) ==
    IF i > Len(ops) THEN <<>>
    ELSE (IF ops[i].copy THEN <<ops[i].v % 256, ops[i].v \div 256>>
          ELSE <<ops[i].v>>) \o AlphaPayload(ops, i + 1)

\* the alpha section of up to 8 operations
AlphaSection(ops) ==
    U32LE(1) \o <<AlphaCtlByte(ops, 1)>> \o AlphaPayload(ops, 1)

\* the 16-bit values of the copies: the 6-bit field, the 3-bit field and the
\* 7-bit field
AlphaXFields == {0, 8, 31, 32, 62, 63}
AlphaYFields == {0, 1, 7}
AlphaCountFields == {0, 1}
AlphaValues ==
    { x + 64 * y + 512 * c :
        x \in AlphaXFields, y \in AlphaYFields, c \in AlphaCountFields }

AlphaOps == {AlphaLiteral(9)} \cup { AlphaCopyOp(v) : v \in AlphaValues }

\* the operations of a section: a literal, then up to two more operations
AlphaOpSeqs ==
    {<<AlphaLiteral(7)>>}
    \cup { <<AlphaLiteral(7), a>> : a \in AlphaOps }
    \cup { <<AlphaLiteral(7), a, b>> : a \in AlphaOps, b \in AlphaOps }

\* the size of the largest output, in pixels
MaxAlphaPixels == 4

\* the output as the blocks left it
AlphaBlank(pixels) == [i \in 1..(4 * pixels) |-> 100 + i]

\* the sections that are not made of operations: no section, a first word
\* that is cut or is not 1, a control byte alone, nine literals (a second
\* control byte), a literal or a copy that is cut
AlphaOddSections ==
    { <<>>, <<1, 0>>, U32LE(2), U32LE(1), U32LE(1) \o <<0>>,
      U32LE(1) \o <<0, 1, 2, 3, 4, 5, 6, 7, 8, 0, 9>>,
      U32LE(1) \o <<2, 7>>, U32LE(1) \o <<2, 7, 63>> }

AlphaPlans ==
    { [input |-> pad \o AlphaSection(ops), offset |-> Len(pad), width |-> w,
       pixels |-> n] :
        pad \in {<<>>}, ops \in AlphaOpSeqs, w \in {1, 2},
        n \in 1..MaxAlphaPixels }
    \cup { [input |-> <<5>> \o AlphaSection(ops), offset |-> 1, width |-> 1,
            pixels |-> MaxAlphaPixels] :
             ops \in { <<AlphaLiteral(7), a>> : a \in AlphaOps } }
    \cup { [input |-> s, offset |-> o, width |-> 8, pixels |-> n] :
             s \in AlphaOddSections, o \in {-1, 0}, n \in {1, 9} }

AlphaInit ==
    /\ overflow_checks \in BOOLEAN
    /\ BseIdle
    /\ UnpackIdle
    /\ PackIdle
    /\ AccIdle
    /\ VarintIdle
    /\ DscIdle
    /\ HuffIdle
    /\ CbgIdle
    /\ BitsIdle
    /\ \E plan \in AlphaPlans :
          /\ alpha_input = plan.input
          /\ alpha_offset = plan.offset
          /\ alpha_width = plan.width
          /\ alpha_output = AlphaBlank(plan.pixels)
    /\ alpha_pc = "call"
    /\ alpha_rd = AlphaLoopStart(0)
    /\ alpha_copy = AlphaNoCopy
    /\ alpha_result = "none"

AlphaNext ==
    \/ AlphaEnter
    \/ AlphaPass
    \/ AlphaCopyByte
    \/ AlphaReturn

AlphaSpec == AlphaInit /\ [][AlphaNext]_vars

----------------------------------------------------------------------------
(* Claims on unpack_alpha *)

\* C22: the k-th byte of a copy is read (dx + dy * W) * 4 away from where
\* that byte is written, dx, dy being the deltas the copy decoded, so that
\* source and destination advance together; the source lies before the
\* destination.  `read` holds the read index, the write index and k of the
\* last byte copied.
C22_AlphaCopySource ==
    alpha_copy.read /= <<>> =>
        /\ alpha_copy.read[1] =
             alpha_copy.read[2] + (alpha_copy.x + alpha_copy.y * alpha_width) * 4
        /\ alpha_copy.read[1] >= 0
        /\ alpha_copy.read[1] < alpha_copy.read[2]

\* the 6-bit field of v, sign-extended from bit 5
SignedField6(v) == IF (v % 64) >= 32 THEN (v % 64) - 64 ELSE v % 64

\* the 3-bit field of v: 0, or the field minus 8
LinesBack(v) == IF (v \div 64) % 8 = 0 THEN 0 ELSE ((v \div 64) % 8) - 8

\* C23: a copy decodes dx as the 6-bit field v & 0x3F sign-extended from
\* bit 5, within -32..31, and dy as 0 when the field (v >> 6) & 7 is 0 and
\* as that field minus 8 otherwise, within -7..0.
C23_AlphaDeltas ==
    alpha_copy.count > 0 =>
        /\ alpha_copy.x = SignedField6(alpha_copy.v)
        /\ alpha_copy.x \in -32..31
        /\ alpha_copy.y = LinesBack(alpha_copy.v)
        /\ alpha_copy.y \in -7..0

----------------------------------------------------------------------------
(* cbg.rs: MsbBitStream::get_bits, beside get_next_bit *)

RECURSIVE get_bits_from(_, _, _, _)
\* one pass of the loop of get_bits with a filled cache: lines 159-163,
\* `take` being min(remaining, cache_size)
get_bits_take(data, rd, v, remaining, take) ==
    get_bits_from(data, [rd EXCEPT !.cache_size = rd.cache_size - take],
                  v * Pow2(take)
                    + ((rd.cache \div Pow2(rd.cache_size - take)) % Pow2(take)),
                  remaining - take)

\* the loop of get_bits: lines 150-164
get_bits_from(data, rd, v, remaining) ==
    IF remaining <= 0 THEN [ok |-> TRUE, v |-> v, rd |-> rd]
    ELSE IF rd.cache_size = 0
    THEN IF rd.pos >= Len(data)
         THEN [ok |-> TRUE, v |-> v * Pow2(remaining), rd |-> rd]
         ELSE get_bits_take(data,
                            [pos |-> rd.pos + 1, cache |-> data[rd.pos + 1],
                             cache_size |-> 8],
                            v, remaining, IF remaining < 8 THEN remaining ELSE 8)
    ELSE get_bits_take(data, rd, v, remaining,
                       IF remaining < rd.cache_size THEN remaining
                       ELSE rd.cache_size)

\* get_bits: lines 146-166
get_bits(data, rd, count) == get_bits_from(data, rd, 0, count)

\* a get_next_bit call on each reader ahead of the comparison, so that the
\* readers stand inside a byte
BitsSkipWith(b) ==
    /\ bits_rd' = b.rd
    /\ bits_one' = b.rd
    /\ bits_skip' = bits_skip - 1
    /\ UNCHANGED <<bits_pc, bits_data, bits_count, bits_got, bits_acc>>

BitsSkip ==
    /\ bits_pc = "skip"
    /\ bits_skip > 0
    /\ BitsSkipWith(get_next_bit(bits_data, bits_rd))
    /\ UNCHANGED <<overflow_checks, bse_vars, bse_test_vars, fs_vars,
                   unpack_vars, pack_vars, acc_vars, varint_vars, dsc_vars,
                   huff_vars, cbg_vars, alpha_vars>>

BitsReady ==
    /\ bits_pc = "skip"
    /\ bits_skip = 0
    /\ bits_pc' = "ready"
    /\ UNCHANGED <<bits_data, bits_skip, bits_count, bits_rd, bits_got,
                   bits_one, bits_acc>>
    /\ UNCHANGED <<overflow_checks, bse_vars, bse_test_vars, fs_vars,
                   unpack_vars, pack_vars, acc_vars, varint_vars, dsc_vars,
                   huff_vars, cbg_vars, alpha_vars>>

\* get_bits(count) on the first reader
BitsGetBitsWith(g) ==
    /\ bits_got' = [called |-> TRUE, ok |-> g.ok, v |-> g.v]
    /\ bits_rd' = g.rd
    /\ UNCHANGED <<bits_pc, bits_data, bits_skip, bits_count, bits_one, bits_acc>>

BitsGetBits ==
    /\ bits_pc = "ready"
    /\ ~bits_got.called
    /\ BitsGetBitsWith(get_bits(bits_data, bits_rd, bits_count))
    /\ UNCHANGED <<overflow_checks, bse_vars, bse_test_vars, fs_vars,
                   unpack_vars, pack_vars, acc_vars, varint_vars, dsc_vars,
                   huff_vars, cbg_vars, alpha_vars>>

\* one more get_next_bit on the second reader, its bit appended below the
\* bits assembled so far; an Err ends the calls
BitsGetNextBitWith(b) ==
    /\ bits_acc' = [taken |-> bits_acc.taken + 1, ok |-> b.ok,
                    v |-> IF b.ok THEN 2 * bits_acc.v + b.bit ELSE bits_acc.v]
    /\ bits_one' = b.rd
    /\ UNCHANGED <<bits_pc, bits_data, bits_skip, bits_count, bits_rd, bits_got>>

BitsGetNextBit ==
    /\ bits_pc = "ready"
    /\ bits_acc.ok
    /\ bits_acc.taken < bits_count
    /\ BitsGetNextBitWith(get_next_bit(bits_data, bits_one))
    /\ UNCHANGED <<overflow_checks, bse_vars, bse_test_vars, fs_vars,
                   unpack_vars, pack_vars, acc_vars, varint_vars, dsc_vars,
                   huff_vars, cbg_vars, alpha_vars>>

----------------------------------------------------------------------------
(* Inputs of the bit reader specification *)

\* the bytes under the readers
BitsBytes == {0, 165, 255}

\* the longest input, in bytes
MaxBitsData == 2

\* the largest count handed to get_bits
MaxBitsCount == 12

BitsInit ==
    /\ overflow_checks \in BOOLEAN
    /\ BseIdle
    /\ UnpackIdle
    /\ PackIdle
    /\ AccIdle
    /\ VarintIdle
    /\ DscIdle
    /\ HuffIdle
    /\ CbgIdle
    /\ AlphaIdle
    /\ bits_pc = "skip"
    /\ bits_data \in UNION { [1..n -> BitsBytes] : n \in 0..MaxBitsData }
    /\ bits_skip \in { k \in {0, 3, 8} : k <= 8 * Len(bits_data) }
    /\ bits_count \in 0..MaxBitsCount
    /\ bits_rd = MsbBitStream_new
    /\ bits_got = BitsNotCalled
    /\ bits_one = MsbBitStream_new
    /\ bits_acc = BitsNoneTaken

BitsNext ==
    \/ BitsSkip
    \/ BitsReady
    \/ BitsGetBits
    \/ BitsGetNextBit

BitsSpec == BitsInit /\ [][BitsNext]_vars

----------------------------------------------------------------------------
(* Claims on MsbBitStream *)

\* both readers have been taken through their calls
BitsBothDone ==
    /\ bits_pc = "ready"
    /\ bits_got.called
    /\ (bits_acc.taken = bits_count \/ ~bits_acc.ok)

\* C24: get_bits(n) gives the value of n get_next_bit calls assembled
\* MSB-first and leaves the reader as they leave it; when the input ends
\* before the n bits are there, get_bits fails as get_next_bit does.
C24_GetBitsAsNextBits ==
    BitsBothDone =>
        /\ bits_got.ok = bits_acc.ok
        /\ bits_acc.ok => (bits_got.v = bits_acc.v /\ bits_rd = bits_one)

----------------------------------------------------------------------------
(* Claims on the first stage of cbg::decrypt *)

\* the blob holds a header and the enc_len bytes of its encrypted block
CbgBlockPresent ==
    /\ Len(cbg_crypted) >= 48
    /\ CbgHeader(cbg_crypted).enc_len <= Len(cbg_crypted) - 48

\* the encrypted block with the key stream subtracted
CbgPlainBlock ==
    [n \in 1..CbgHeader(cbg_crypted).enc_len |->
        (cbg_crypted[48 + n] + 256
           - HashRun(CbgHeader(cbg_crypted).key,
                     CbgHeader(cbg_crypted).enc_len).keys[n]) % 256]

\* the byte sum or the XOR of the decrypted block is not the header's
CbgChecksDiffer ==
    \/ SumBytes(CbgPlainBlock, 0, Len(CbgPlainBlock))
         /= CbgHeader(cbg_crypted).sum_check
    \/ XorBytes(CbgPlainBlock, 0, Len(CbgPlainBlock))
         /= CbgHeader(cbg_crypted).xor_check

\* C25: data0 is the encrypted block with hash_update(key) & 0xFF taken
\* off each byte, and a block whose byte sum or XOR differs from sum_check
\* or xor_check ends the call with CbgDecryptError and without an image,
\* whatever enc_len is, 0 included.
C25_ChecksumGate ==
    (cbg_pc /= "call" /\ CbgBlockPresent) =>
        /\ cbg_pc \in {"v1", "v2"} => cbg_data0 = CbgPlainBlock
        /\ CbgChecksDiffer =>
              /\ cbg_pc = "done"
              /\ cbg_result = "CbgDecryptError"
              /\ cbg_pixels = <<>>

----------------------------------------------------------------------------
(* Claims on the reads of dsc::decrypt *)

\* the walk of the next token, when the decode loop goes on
DscNextWalk == tree_walk(dsc_nodes, dsc_crypted, dsc_stream, 0)

\* C27: on a blob that dsc::is_valid accepts, no read of the input is at an
\* index >= its length: the 512 bytes of the code-length table are there,
\* crypted_size - 544 does not underflow, and every byte that a tree walk
\* or a match descriptor takes lies inside the buffer.
C27_InputReadsInside ==
    dsc_is_valid(dsc_crypted, dsc_crypted_size) =>
        /\ dsc_pc = "call" => Len(dsc_crypted) >= 32 + 512
        /\ dsc_pc = "tree" => dsc_crypted_size >= 32 + 512
        /\ (dsc_pc = "decode" /\ DscLoopCondition) =>
              /\ ~(DscNextWalk.panic /\ DscNextWalk.nentry < 1024)
              /\ (/\ ~DscNextWalk.panic
                  /\ (NodeAt(dsc_nodes, DscNextWalk.nentry).leaf_value \div 256)
                       % 256 = 1)
                    => ~DescriptorPanics(dsc_crypted, DscNextWalk.st)

----------------------------------------------------------------------------
(* Claims on the tree construction of dsc::decrypt *)

\* how many parents the next pass of the outer loop allocates
DscNextParents ==
    ParentCount(dsc_build,
                GroupCount(dsc_buffer, dsc_build.buffer_cur, dsc_build.nn))

\* C28: the tree construction stays inside its pools.  A pass that makes d
\* parents allocates the node indices value_set .. value_set + 2d - 1 and
\* writes them to the level vector at toggle .. toggle + 2d - 1: the
\* indices are below 1024 and the writes stay in the 512 slots of the bank
\* at toggle.
C28_TreePoolsSuffice ==
    (dsc_pc = "tree" /\ dsc_build.buffer_cur < Len(dsc_buffer)) =>
        /\ dsc_build.value_set + 2 * DscNextParents <= 1024
        /\ 2 * DscNextParents <= 512

----------------------------------------------------------------------------
(* Claims on the loop of HuffmanTree::new *)

RECURSIVE HuffValidSum(_, _)
\* the sum of the weights of the valid nodes among the first k, as a u32
HuffValidSum(nodes, k) ==
    IF k = 0 THEN 0
    ELSE U32WrapAdd(HuffValidSum(nodes, k - 1),
                    IF nodes[k].valid THEN nodes[k].weight ELSE 0)

\* C29: the pairing loop ends: a table of L leaves has at most L nodes
\* appended to it, every pass appending one, and as long as the loop runs
\* the weights of the valid nodes add up to the total, so that the parent
\* that ends the loop is reached.
C29_PairingTerminates ==
    huff_pc \in {"loop", "built"} =>
        /\ Len(huff_nodes) <= 2 * Len(huff_weights)
        /\ HuffValidSum(huff_nodes, Len(huff_nodes)) = huff_root_weight

----------------------------------------------------------------------------
(* Claim about the output file of a pack run (PackSpec) *)

\* the loop has read and accepted every regular file of the input directory
PackAllAccepted ==
    /\ pack_pc = "loop"
    /\ pack_pos = Len(pack_dir)
    /\ Len(pack_files) = Cardinality({ k \in 1..Len(pack_dir) : pack_dir[k].is_file })
    /\ \A k \in 1..Len(pack_dir) :
         pack_dir[k].is_file => (pack_dir[k].readable /\ ogg_is_ogg(pack_dir[k].data))

\* the output path changes only in a step taken once every file is accepted;
\* the step that ends the run with UnsupportedFileType, or with the error of a
\* file that could not be read, leaves the path as it was
PackOutputStep ==
    /\ (arc_exists' /= arc_exists \/ arc_bytes' /= arc_bytes) => PackAllAccepted
    /\ ( \/ pack_result' = "UnsupportedFileType"
         \/ (pack_result' = "Io" /\ pack_pos < Len(pack_dir)) )
         => (arc_exists' = arc_exists /\ arc_bytes' = arc_bytes)

\* C30: the output file is created and written only after every regular file
\* of the input directory has been read and accepted; when pack fails with
\* UnsupportedFileType or a read error the output path has been neither
\* created nor modified.
C30_FailedPackLeavesOutput == [][PackOutputStep]_vars

\* pack failed with UnsupportedFileType on its second entry, after accepting
\* an OGG file, and the older file at the output path is as it was
C30_Witness ==
    /\ pack_pc = "done"
    /\ pack_result = "UnsupportedFileType"
    /\ pack_pos = 1
    /\ Len(pack_files) = 1
    /\ arc_exists
    /\ arc_bytes = RawBlob

====
